---- MODULE Spec2Model ----
(***************************************************************************)
(* A model of the project analyzer (src/analyzer.py, src/main.py,          *)
(* src/config.py).                                                         *)
(*                                                                         *)
(* Text (file names, extensions, file contents) is a sequence of           *)
(* one-character strings, so that suffix extraction, lower-casing,         *)
(* substring tests, line splitting and marker scanning are computed on     *)
(* characters as the code computes them.                                   *)
(*                                                                         *)
(* Specifications:                                                         *)
(*   SpecCategorize  one call of ProjectAnalyzer._categorize_file          *)
(*   SpecMetrics     calls of ProjectAnalyzer._get_code_metrics on a file  *)
(*   SpecDuplicates  one call of ProjectAnalyzer._find_duplicates          *)
(*   SpecCodeFiles   one call of ProjectAnalyzer._analyze_code_files       *)
(*   SpecCollect     one call of ProjectAnalyzer._collect_files            *)
(*   SpecSummary     one call of ProjectAnalyzer._generate_project_summary *)
(*   SpecApi         one request to /api/analyze                           *)
(*   Spec            runs of analyze_project / analyze_directory on a tree *)
(***************************************************************************)
EXTENDS Integers, Sequences, FiniteSets, TLC

VARIABLES
    call,        \* the call under study: the function and its argument
    ret,         \* its return value or exception, Pending before it has finished
    pc,          \* the position of the run inside analyze_project / analyze_directory
    files,       \* analyze_project: the files _collect_files returned
    tasks,       \* the tasks of the current executor.map: "queued", "running" or "done"
    file_metadata,     \* analyze_project: the results of the _analyze_file tasks, by position
    file_cache,  \* ProjectAnalyzer.file_cache: path -> FileMetadata
    categorized_files, \* analyze_project: the result of _categorize_files
    code_files,  \* the argument of _analyze_code_files
    by_language, \* _analyze_code_files: the language groups, in order of first appearance
    lang_index,  \* _analyze_code_files: the position of the current group in by_language
    file_metrics,      \* _analyze_code_files: the results of the _get_code_metrics tasks
    metrics,     \* _analyze_code_files: language -> entry
    code_cache,  \* ProjectAnalyzer.code_cache: path -> CodeMetrics
    log,         \* the records written to the logger, as a set
    calls,       \* the number of calls of call.fn that have returned
    previous,    \* what the call before the last one returned, Pending if there is none
    opened,      \* path -> the number of times _get_code_metrics opened the file
    written      \* cache and key -> the number of writes in the current run

pureVars == <<call, ret>>
runVars == <<pc, files, tasks, file_metadata, file_cache, categorized_files,
             code_files, by_language, lang_index, file_metrics, metrics>>
obsVars == <<calls, previous, opened, written>>
vars == <<call, ret, runVars, code_cache, log, obsVars>>

Pending == [pending |-> TRUE]

\* Python's None
None == [none |-> TRUE]

\* the analyzer as constructed by ProjectAnalyzer.__init__, nothing logged
\* yet, no run under way
IdleAnalyzer ==
    /\ code_cache = <<>>
    /\ file_cache = <<>>
    /\ log = {}
    /\ pc = "idle"
    /\ files = <<>>
    /\ tasks = <<>>
    /\ file_metadata = <<>>
    /\ categorized_files = <<>>
    /\ code_files = <<>>
    /\ by_language = <<>>
    /\ lang_index = 0
    /\ file_metrics = <<>>
    /\ metrics = <<>>
    /\ calls = 0
    /\ previous = Pending
    /\ opened = <<>>
    /\ written = <<>>

(***************************************************************************)
(* Text helpers (Python str / pathlib semantics).                          *)
(***************************************************************************)
UpperCase == <<"A","B","C","D","E","F","G","H","I","J","K","L","M",
               "N","O","P","Q","R","S","T","U","V","W","X","Y","Z">>
LowerCase == <<"a","b","c","d","e","f","g","h","i","j","k","l","m",
               "n","o","p","q","r","s","t","u","v","w","x","y","z">>

\* str.lower() on one character
LowerChar(c) ==
    IF \E i \in DOMAIN UpperCase : UpperCase[i] = c
    THEN LowerCase[CHOOSE i \in DOMAIN UpperCase : UpperCase[i] = c]
    ELSE c

\* str.lower()
Lower(s) == [i \in DOMAIN s |-> LowerChar(s[i])]

\* s[i:j] in Python terms is Slice(s, i+1, j): characters a..b, 1-based, inclusive
Slice(s, a, b) == [i \in 1..(b - a + 1) |-> s[a + i - 1]]

\* s.startswith(p)
StartsWith(s, p) == Len(s) >= Len(p) /\ Slice(s, 1, Len(p)) = p

\* p in s  (substring test)
Contains(s, p) ==
    \E k \in 0..(Len(s) - Len(p)) : Slice(s, k + 1, k + Len(p)) = p

\* s.rfind('.') as a 1-based position, 0 when there is no dot
RFindDot(s) ==
    IF \E i \in DOMAIN s : s[i] = "."
    THEN CHOOSE i \in DOMAIN s : s[i] = "." /\ \A j \in DOMAIN s : s[j] = "." => j <= i
    ELSE 0

\* pathlib's PurePath.suffix of a file name: the text from the last dot on,
\* unless the name has no dot, starts with its only dot or ends with the dot
Suffix(name) ==
    LET i == RFindDot(name)
    IN  IF 1 < i /\ i < Len(name) THEN Slice(name, i, Len(name)) ELSE <<>>

(***************************************************************************)
(* config.py                                                               *)
(***************************************************************************)
\* SUPPORTED_CODE_EXTENSIONS, in the dict's insertion order
SUPPORTED_CODE_EXTENSIONS == <<
     [lang |-> "python", extensions |-> {<<".","p","y">>, <<".","p","y","w">>, <<".","p","y","x">>, <<".","p","x","d">>, <<".","p","x","i">>}],
     [lang |-> "javascript", extensions |-> {<<".","j","s">>, <<".","j","s","x">>, <<".","t","s">>, <<".","t","s","x">>}],
     [lang |-> "web", extensions |-> {<<".","h","t","m","l">>, <<".","h","t","m">>, <<".","c","s","s">>, <<".","s","c","s","s">>, <<".","s","a","s","s">>}],
     [lang |-> "java", extensions |-> {<<".","j","a","v","a">>, <<".","c","l","a","s","s">>, <<".","j","a","r">>}],
     [lang |-> "c_cpp", extensions |-> {<<".","c">>, <<".","c","p","p">>, <<".","h">>, <<".","h","p","p">>}],
     [lang |-> "ruby", extensions |-> {<<".","r","b">>, <<".","r","a","k","e">>, <<".","g","e","m","s","p","e","c">>}],
     [lang |-> "php", extensions |-> {<<".","p","h","p">>, <<".","p","h","t","m","l">>}],
     [lang |-> "go", extensions |-> {<<".","g","o">>}],
     [lang |-> "rust", extensions |-> {<<".","r","s">>}] >>

(***************************************************************************)
(* ProjectAnalyzer._categorize_file                                        *)
(*                                                                         *)
(* A category is the sequence of the '/'-separated parts of the category   *)
(* string: 'code/python' is <<"code", "python">>, 'other' is <<"other">>.  *)
(***************************************************************************)
doc_extensions ==
    {<<".","m","d">>, <<".","r","s","t">>, <<".","t","x","t">>, <<".","p","d","f">>, <<".","d","o","c">>, <<".","d","o","c","x">>}

config_patterns ==
    {<<"r","e","q","u","i","r","e","m","e","n","t","s",".","t","x","t">>,
     <<"p","a","c","k","a","g","e",".","j","s","o","n">>,
     <<"s","e","t","u","p",".","p","y">>,
     <<".","g","i","t","i","g","n","o","r","e">>,
     <<"D","o","c","k","e","r","f","i","l","e">>,
     <<"d","o","c","k","e","r","-","c","o","m","p","o","s","e",".","y","m","l">>}

config_extensions ==
    {<<".","j","s","o","n">>, <<".","y","a","m","l">>, <<".","y","m","l">>, <<".","t","o","m","l">>, <<".","i","n","i">>}

\* the languages whose extension set holds ext, as positions of the table
CodeMatches(ext) ==
    {i \in DOMAIN SUPPORTED_CODE_EXTENSIONS : ext \in SUPPORTED_CODE_EXTENSIONS[i].extensions}

\* the loop over SUPPORTED_CODE_EXTENSIONS.items(): the first language that matches
FirstCodeMatch(ext) ==
    CHOOSE i \in CodeMatches(ext) : \A j \in CodeMatches(ext) : i <= j

\* a variant of _categorize_file: the name test runs before the extension tests
CategorizeTestFirst(name) ==
    LET ext == Lower(Suffix(name))
        lname == Lower(name)
    IN  IF Contains(lname, <<"t","e","s","t">>) \/ Contains(lname, <<"s","p","e","c">>)
        THEN <<"test">>
        ELSE IF CodeMatches(ext) # {}
        THEN <<"code", SUPPORTED_CODE_EXTENSIONS[FirstCodeMatch(ext)].lang>>
        ELSE IF ext \in doc_extensions THEN <<"documentation">>
        ELSE IF lname \in config_patterns \/ ext \in config_extensions
        THEN <<"configuration">>
        ELSE <<"other">>

\* a variant of _categorize_file: a file that matches no rule gets no category
CategorizeNoFallback(name) ==
    LET ext == Lower(Suffix(name))
        lname == Lower(name)
    IN  IF CodeMatches(ext) # {}
        THEN <<"code", SUPPORTED_CODE_EXTENSIONS[FirstCodeMatch(ext)].lang>>
        ELSE IF ext \in doc_extensions THEN <<"documentation">>
        ELSE IF lname \in config_patterns \/ ext \in config_extensions
        THEN <<"configuration">>
        ELSE IF Contains(lname, <<"t","e","s","t">>) \/ Contains(lname, <<"s","p","e","c">>)
        THEN <<"test">>
        ELSE <<>>

\* _categorize_file(filepath), of the path's file name
_categorize_file(name) ==
    LET ext == Lower(Suffix(name))
        lname == Lower(name)
    IN  IF CodeMatches(ext) # {}
        THEN <<"code", SUPPORTED_CODE_EXTENSIONS[FirstCodeMatch(ext)].lang>>
        ELSE IF ext \in doc_extensions THEN <<"documentation">>
        ELSE IF lname \in config_patterns \/ ext \in config_extensions
        THEN <<"configuration">>
        ELSE IF Contains(lname, <<"t","e","s","t">>) \/ Contains(lname, <<"s","p","e","c">>)
        THEN <<"test">>
        ELSE <<"other">>

(***************************************************************************)
(* SpecCategorize: _categorize_file applied to one file name.              *)
(***************************************************************************)
NameStems ==
    {<<"m","a","i","n">>, <<"T","e","s","t","_","i","o">>, <<"m","y","s","p","e","c">>,
     <<"D","o","c","k","e","r","f","i","l","e">>, <<"d","o","c","k","e","r","f","i","l","e">>,
     <<"p","a","c","k","a","g","e">>, <<"r","e","q","u","i","r","e","m","e","n","t","s">>,
     <<"s","e","t","u","p">>, <<"d","o","c","k","e","r","-","c","o","m","p","o","s","e">>,
     <<".","g","i","t","i","g","n","o","r","e">>, <<"a",".","b">>, <<"R","E","A","D","M","E">>,
     <<>>}

NameEndings ==
    {<<>>, <<".">>, <<".","p","y">>, <<".","P","Y">>, <<".","j","s">>, <<".","t","s","x">>,
     <<".","h","t","m","l">>, <<".","c","s","s">>, <<".","j","a","v","a">>, <<".","c">>,
     <<".","r","b">>, <<".","p","h","p">>, <<".","g","o">>, <<".","r","s">>,
     <<".","m","d">>, <<".","T","X","T">>, <<".","j","s","o","n">>, <<".","y","m","l">>,
     <<".","i","n","i">>, <<".","x","y","z">>}

\* the file names _categorize_file is applied to
FileNames == {s \o e : s \in NameStems, e \in NameEndings} \ {<<>>, <<".">>}

InitCategorize ==
    /\ call \in {[fn |-> "_categorize_file", arg |-> n] : n \in FileNames}
    /\ ret = Pending
    /\ IdleAnalyzer

CallCategorizeFile ==
    /\ call.fn = "_categorize_file"
    /\ ret = Pending
    /\ ret' = [value |-> _categorize_file(call.arg)]
    /\ calls' = calls + 1
    /\ UNCHANGED <<call, runVars, code_cache, log, previous, opened, written>>

NextCategorize == CallCategorizeFile

SpecCategorize == InitCategorize /\ [][NextCategorize]_vars

Categorized == call.fn = "_categorize_file" /\ ret # Pending

\* the language keys of SUPPORTED_CODE_EXTENSIONS
Languages == {SUPPORTED_CODE_EXTENSIONS[i].lang : i \in DOMAIN SUPPORTED_CODE_EXTENSIONS}

\* the fixed set of categories
FixedCategories ==
    {<<"code", l>> : l \in Languages}
        \cup {<<"documentation">>, <<"configuration">>, <<"test">>, <<"other">>}

\* C4: _categorize_file is total: every file name gets one non-empty category,
\* and it is code/<language> for a language key of SUPPORTED_CODE_EXTENSIONS,
\* documentation, configuration, test or other.
C4_CategoryTotal ==
    Categorized =>
        /\ ret.value \in FixedCategories
        /\ ret.value # <<>>
        /\ \A i \in DOMAIN ret.value : ret.value[i] # ""

\* a file that matches no rule has been given the fallback category
C4_Witness == Categorized /\ ret.value = <<"other">> /\ Suffix(call.arg) # <<>>

\* The five rules of the classifier, by rank, as conditions on the file name.
AllCodeExtensions ==
    UNION {SUPPORTED_CODE_EXTENSIONS[i].extensions : i \in DOMAIN SUPPORTED_CODE_EXTENSIONS}

RuleMatches(rank, name) ==
    CASE rank = 1 -> Lower(Suffix(name)) \in AllCodeExtensions
      [] rank = 2 -> Lower(Suffix(name)) \in doc_extensions
      [] rank = 3 -> Lower(name) \in config_patterns
                        \/ Lower(Suffix(name)) \in config_extensions
      [] rank = 4 -> \E k \in 0..(Len(name) - 4) :
                        Lower(Slice(name, k + 1, k + 4))
                            \in {<<"t","e","s","t">>, <<"s","p","e","c">>}
      [] OTHER    -> TRUE

RankOf(category) ==
    CASE category[1] = "code"          -> 1
      [] category[1] = "documentation" -> 2
      [] category[1] = "configuration" -> 3
      [] category[1] = "test"          -> 4
      [] OTHER                         -> 5

\* C5: the rules apply in the order code extension, documentation extension,
\* configuration name/extension, name contains test/spec, other; the first
\* rule that matches decides, so no earlier matching rule is passed over, and
\* a code category names the language whose extension set holds the extension.
C5_FirstMatchWins ==
    Categorized =>
        /\ ret.value # <<>>
        /\ RuleMatches(RankOf(ret.value), call.arg)
        /\ \A r \in 1..5 : r < RankOf(ret.value) => ~RuleMatches(r, call.arg)
        /\ RankOf(ret.value) = 1 =>
              \E i \in DOMAIN SUPPORTED_CODE_EXTENSIONS :
                  /\ ret.value = <<"code", SUPPORTED_CODE_EXTENSIONS[i].lang>>
                  /\ Lower(Suffix(call.arg)) \in SUPPORTED_CODE_EXTENSIONS[i].extensions

\* a name that contains 'test' and has a code extension is code, not test
C5_Witness ==
    /\ Categorized
    /\ RuleMatches(1, call.arg) /\ RuleMatches(4, call.arg)
    /\ ret.value = <<"code", "python">>

\* C6: a file named by one of the well-known configuration filenames, whose
\* extension is neither a code nor a documentation extension, is configuration.
C6_WellKnownNamesAreConfiguration ==
    (/\ Categorized
     /\ call.arg \in config_patterns
     /\ Lower(Suffix(call.arg)) \notin AllCodeExtensions
     /\ Lower(Suffix(call.arg)) \notin doc_extensions)
        => ret.value = <<"configuration">>

\* counting per key: the count of key k, and f with n more for k
Counted(f, k) == IF k \in DOMAIN f THEN f[k] ELSE 0
Bump(f, k, n) == IF n = 0 THEN f ELSE (k :> (Counted(f, k) + n)) @@ f

\* the key of a cache
Slot(cache, key) == [cache |-> cache, key |-> key]

(***************************************************************************)
(* Text helpers of the metric engine.  An operator takes what it uses more *)
(* than once as a parameter, so that each text is scanned once.            *)
(***************************************************************************)
IsSpace(c) == c \in {" ", "\t", "\n"}

MinOf(S) == CHOOSE k \in S : \A j \in S : k <= j
MaxOf(S) == CHOOSE k \in S : \A j \in S : j <= k
MinOrZero(S) == IF S = {} THEN 0 ELSE MinOf(S)

\* the first position k >= from at which p occurs in s, 0 when there is none
Find(s, p, from) ==
    MinOrZero({k \in from..(Len(s) - Len(p) + 1) : Slice(s, k, k + Len(p) - 1) = p})

\* str.splitlines(): the text between line breaks, no empty last line.  The
\* text is split at the line break nearest to its middle, and so are its halves.
Breaks(s, a, b) == {k \in a..b : s[k] = "\n"}

NearestBreak(after, before) ==
    IF after # {} THEN MinOf(after) ELSE IF before # {} THEN MaxOf(before) ELSE 0

MidBreak(s, mid) == NearestBreak(Breaks(s, mid, Len(s)), Breaks(s, 1, mid - 1))

RECURSIVE SplitAll(_)
SplitAt(s, nl) ==
    IF nl = 0 THEN <<s>>
    ELSE SplitAll(Slice(s, 1, nl - 1)) \o SplitAll(Slice(s, nl + 1, Len(s)))

SplitAll(s) == IF s = <<>> THEN <<s>> ELSE SplitAt(s, MidBreak(s, (Len(s) + 1) \div 2))

DropEmptyLast(pieces) ==
    IF pieces[Len(pieces)] = <<>> THEN SubSeq(pieces, 1, Len(pieces) - 1) ELSE pieces

SplitLines(s) == DropEmptyLast(SplitAll(s))

\* str.strip()
StripTo(s, keep) == IF keep = {} THEN <<>> ELSE Slice(s, MinOf(keep), MaxOf(keep))
Strip(s) == StripTo(s, {i \in DOMAIN s : ~IsSpace(s[i])})

\* str.rstrip()
RStripTo(s, keep) == IF keep = {} THEN <<>> ELSE Slice(s, 1, MaxOf(keep))
RStrip(s) == RStripTo(s, {i \in DOMAIN s : ~IsSpace(s[i])})

\* [line.strip() for line in lines]
StripAll(lines) == [i \in DOMAIN lines |-> Strip(lines[i])]

\* len(re.findall(open [\s\S]*? close, s)) from position from on: the
\* non-overlapping spans, leftmost first, each closed by the first closer
RECURSIVE CountSpans(_, _, _, _)
SpansClosedAt(s, open, close, j) ==
    IF j = 0 THEN 0 ELSE 1 + CountSpans(s, open, close, j + Len(close))

SpansOpenedAt(s, open, close, i) ==
    IF i = 0 THEN 0 ELSE SpansClosedAt(s, open, close, Find(s, close, i + Len(open)))

CountSpans(s, open, close, from) == SpansOpenedAt(s, open, close, Find(s, open, from))

(***************************************************************************)
(* radon, on the Python subset the model draws its files from: lines of    *)
(* names (x, xx, ...), comments (#), an opening bracket that is never      *)
(* closed, and one-line definitions of the functions f and g whose body is *)
(* a name or two names joined by 'or'.                                     *)
(***************************************************************************)
\* the heads of the one-line function definitions
PyFunctionHeads ==
    {[text |-> <<"d","e","f"," ","f","(",")",":">>, name |-> "f"],
     [text |-> <<"d","e","f"," ","g","(",")",":">>, name |-> "g"]}

IsNameRun(t) == t # <<>> /\ \A i \in DOMAIN t : t[i] = "x"

\* the position of the boolean operator in a function body, 0 without one
OrAt(body) == Find(body, <<" ","o","r"," ">>, 1)

\* a function body of the subset: a name, or name or name
IsBodySplit(body, k) ==
    IF k = 0 THEN IsNameRun(body)
    ELSE IsNameRun(Slice(body, 1, k - 1)) /\ IsNameRun(Slice(body, k + 4, Len(body)))
IsBody(body) == IsBodySplit(body, OrAt(body))

\* the text after the 8 characters of a function head
BodyOf(code) == Slice(code, 9, Len(code))

\* the code of a line: the text before its comment
CodeBefore(line, h) == IF h = 0 THEN line ELSE Slice(line, 1, h - 1)
CodePart(line) == CodeBefore(line, Find(line, <<"#">>, 1))

\* the statement of a line: its code without the trailing blanks
Statement(line) == RStrip(CodePart(line))

IsFunctionText(code) ==
    (\E f \in PyFunctionHeads : StartsWith(code, f.text)) /\ IsBody(BodyOf(code))

\* what radon's cc_visit reports for the function: its name and its
\* cyclomatic complexity, 1 plus 1 for a boolean operator
FunctionOfText(code) ==
    [name |-> (CHOOSE f \in PyFunctionHeads : StartsWith(code, f.text)).name,
     complexity |-> IF OrAt(BodyOf(code)) = 0 THEN 1 ELSE 2]

\* the code opens more brackets than it closes (in this subset only a
\* function definition closes the bracket it opens)
OpensBracketIn(code) ==
    Cardinality({i \in DOMAIN code : code[i] = "("})
        > Cardinality({i \in DOMAIN code : code[i] = ")"})

\* the counts radon.raw.analyze returns for the stripped lines: a line that
\* is one comment is a single comment, an empty line is blank, the others are
\* source lines; comments counts the comment tokens, one per line at most
RawCounts(lines, single, blank, commented) ==
    [ok |-> TRUE,
     loc |-> Len(lines),
     sloc |-> Len(lines) - Cardinality(single) - Cardinality(blank),
     comments |-> Cardinality(commented)]

RawOfLines(lines) ==
    IF \E i \in DOMAIN lines : OpensBracketIn(CodePart(lines[i]))
    THEN [ok |-> FALSE, loc |-> 0, sloc |-> 0, comments |-> 0]
    ELSE RawCounts(lines,
                   {i \in DOMAIN lines : lines[i] # <<>> /\ lines[i][1] = "#"},
                   {i \in DOMAIN lines : lines[i] = <<>>},
                   {i \in DOMAIN lines : \E k \in DOMAIN lines[i] : lines[i][k] = "#"})

\* radon.raw.analyze(content): not ok when tokenizing fails (a bracket is
\* still open at the end of the file, a SyntaxError), else the line counts
RawAnalyze(content) == RawOfLines(StripAll(SplitLines(content)))

\* a statement of the subset: nothing, a name at the start of the line, or a
\* function definition
IsStatementText(code) ==
    \/ code = <<>>
    \/ \A i \in DOMAIN code : code[i] = "x"
    \/ IsFunctionText(code)

\* the statements of the lines of a file
Statements(lines) == [i \in DOMAIN lines |-> Statement(lines[i])]

\* whether ast.parse succeeds on a file with these statements
AllParse(stmts) == \A i \in DOMAIN stmts : IsStatementText(stmts[i])
PyParses(content) == AllParse(Statements(SplitLines(content)))

\* the blocks radon.complexity.cc_visit reports, in order
BlocksOf(defs) == [i \in DOMAIN defs |-> FunctionOfText(defs[i])]
FunctionBlocks(stmts) == BlocksOf(SelectSeq(stmts, IsFunctionText))

\* radon.complexity.cc_visit(content): raises when the file does not parse
CcOfStatements(stmts) ==
    IF AllParse(stmts) THEN [ok |-> TRUE, blocks |-> FunctionBlocks(stmts)]
    ELSE [ok |-> FALSE, blocks |-> <<>>]
cc_visit(content) == CcOfStatements(Statements(SplitLines(content)))

\* radon.metrics.h_visit(content) returns a Halstead report (a named tuple of
\* Halstead measures), not a number
HalsteadReport == [type |-> "Halstead", value |-> 0]
Number(n) == [type |-> "number", value |-> n]
h_visit(content) == HalsteadReport

Max(a, b) == IF a >= b THEN a ELSE b

\* complexity = max(complexity, item.complexity) over the blocks
RECURSIVE MaxComplexity(_, _)
MaxComplexity(blocks, acc) ==
    IF blocks = <<>> THEN acc
    ELSE MaxComplexity(Tail(blocks), Max(acc, Head(blocks).complexity))

(***************************************************************************)
(* ProjectAnalyzer._extract_dependencies: the subset has no import         *)
(* statements, so the set is empty; a Python file that does not parse is   *)
(* logged.                                                                 *)
(***************************************************************************)
_extract_dependencies(content, path, name) ==
    IF Suffix(name) = <<".","p","y">> /\ ~PyParses(content)
    THEN [dependencies |-> {},
          logged |-> {[level |-> "error", what |-> "Failed to extract dependencies", path |-> path]}]
    ELSE [dependencies |-> {}, logged |-> {}]

NoDependencies == [dependencies |-> {}, logged |-> {}]

(***************************************************************************)
(* ProjectAnalyzer._get_code_metrics                                       *)
(***************************************************************************)
\* CODE_QUALITY_METRICS['loc'] and ['comment_ratio']['min'] = 0.1 = 1/10
LocMax == 500
LocWarning == 300
CommentRatioMinNum == 1
CommentRatioMinDen == 10

\* f"{comment_ratio:.2%}": the ratio in hundredths of a percent, rounded half to even
RoundHalfEven(q, r, d) == IF 2 * r > d \/ (2 * r = d /\ q % 2 = 1) THEN q + 1 ELSE q
PercentHundredths(comments, sloc) ==
    IF sloc = 0 THEN 0
    ELSE RoundHalfEven((comments * 10000) \div sloc, (comments * 10000) % sloc, sloc)

\* a variant of the length issue: thresholds that include their bound
LengthIssuesInclusive(sloc) ==
    IF sloc >= LocMax THEN <<[issue |-> "File too long", value |-> sloc]>>
    ELSE IF sloc >= LocWarning
    THEN <<[issue |-> "Warning: File approaching maximum length", value |-> sloc]>>
    ELSE <<>>

\* the length issue of a file with sloc non-blank lines
LengthIssues(sloc) ==
    IF sloc > LocMax THEN <<[issue |-> "File too long", value |-> sloc]>>
    ELSE IF sloc > LocWarning
    THEN <<[issue |-> "Warning: File approaching maximum length", value |-> sloc]>>
    ELSE <<>>

\* a variant of the comment issue: a ratio equal to the minimum is low too
CommentIssuesAtMinimum(comments, sloc) ==
    IF sloc = 0 \/ comments * CommentRatioMinDen <= sloc * CommentRatioMinNum
    THEN <<[issue |-> "Low comment ratio", value |-> PercentHundredths(comments, sloc)]>>
    ELSE <<>>

\* the comment issue: comment_ratio = comments / sloc (0 when sloc = 0) < 0.1
CommentIssues(comments, sloc) ==
    IF sloc = 0 \/ comments * CommentRatioMinDen < sloc * CommentRatioMinNum
    THEN <<[issue |-> "Low comment ratio", value |-> PercentHundredths(comments, sloc)]>>
    ELSE <<>>

\* one step of the JavaScript/TypeScript comment scan, on a stripped line:
\* whether the line counts as a comment, and the in_multiline flag after it
JsStep(single, opens, closes, in_multiline) ==
    IF single THEN [counted |-> 1, in_multiline |-> in_multiline]
    ELSE IF opens /\ closes THEN [counted |-> 1, in_multiline |-> in_multiline]
    ELSE IF opens THEN [counted |-> 1, in_multiline |-> TRUE]
    ELSE IF closes THEN [counted |-> 1, in_multiline |-> FALSE]
    ELSE IF in_multiline THEN [counted |-> 1, in_multiline |-> in_multiline]
    ELSE [counted |-> 0, in_multiline |-> in_multiline]

JsLine(line, in_multiline) ==
    JsStep(StartsWith(line, <<"/","/">>), Contains(line, <<"/","*">>),
           Contains(line, <<"*","/">>), in_multiline)

\* the comment scan over the lines from position i on
RECURSIVE JsComments(_, _, _)
JsAfter(lines, i, step) == step.counted + JsComments(lines, i + 1, step.in_multiline)

JsComments(lines, i, in_multiline) ==
    IF i > Len(lines) THEN 0
    ELSE JsAfter(lines, i, JsLine(Strip(lines[i]), in_multiline))

\* in_multiline after the first i lines
RECURSIVE JsFlag(_, _)
JsFlag(lines, i) ==
    IF i = 0 THEN FALSE ELSE JsLine(Strip(lines[i]), JsFlag(lines, i - 1)).in_multiline

PyExts   == {<<".","p","y">>, <<".","p","y","w">>}
JsExts   == {<<".","j","s">>, <<".","j","s","x">>, <<".","t","s">>, <<".","t","s","x">>}
HtmlExts == {<<".","h","t","m","l">>, <<".","h","t","m">>}
CssExts  == {<<".","c","s","s">>, <<".","s","c","s","s">>, <<".","s","a","s","s">>}

\* open(path, 'r', encoding=encoding) and f.read(): fails for a file that
\* cannot be opened and for the encoding name 'binary', which is no codec
CanRead(file) == file.readable /\ file.encoding # "binary"

\* the except branch: the failure is logged and None returned
MetricsFailed(file) ==
    [value |-> None,
     logged |-> {[level |-> "error", what |-> "Failed to get metrics", path |-> file.path]}]

\* the CodeMetrics built from the counts, with the issues
BuildMetrics(loc, sloc, comments, complexity, maintainability, functions, deps) ==
    [value |-> [loc |-> loc,
                sloc |-> sloc,
                comments |-> comments,
                complexity |-> complexity,
                maintainability |-> maintainability,
                duplicates |-> <<>>,
                issues |-> LengthIssues(sloc) \o CommentIssues(comments, sloc),
                functions |-> functions,
                dependencies |-> deps.dependencies],
     logged |-> deps.logged]

\* a variant of the Python branch: a failure of cc_visit fails the file
PyMeasuredOrNone(raw, cc, content, deps) ==
    IF cc.ok
    THEN BuildMetrics(raw.loc, raw.sloc, raw.comments, MaxComplexity(cc.blocks, 0),
                      h_visit(content), [i \in DOMAIN cc.blocks |-> cc.blocks[i].name], deps)
    ELSE [value |-> None, logged |-> deps.logged]

\* the Python branch: radon's counts; complexity and maintainability keep
\* their defaults when cc_visit raises (the bare except)
PyMeasured(raw, cc, content, deps) ==
    BuildMetrics(raw.loc, raw.sloc, raw.comments,
                 MaxComplexity(cc.blocks, 0),
                 IF cc.ok THEN h_visit(content) ELSE Number(100),
                 [i \in DOMAIN cc.blocks |-> cc.blocks[i].name],
                 deps)

PyStrategy(file, raw) ==
    IF ~raw.ok THEN MetricsFailed(file)
    ELSE PyMeasured(raw, cc_visit(file.content), file.content,
                    _extract_dependencies(file.content, file.path, file.name))

\* the comments of the other branches
LexComments(ext, content, lines) ==
    IF ext \in JsExts THEN JsComments(lines, 1, FALSE)
    ELSE IF ext \in HtmlExts
    THEN CountSpans(content, <<"<","!","-","-">>, <<"-","-",">">>, 1)
    ELSE IF ext \in CssExts THEN CountSpans(content, <<"/","*">>, <<"*","/">>, 1)
    ELSE 0

\* the other branches: loc and sloc by line splitting, the defaults for
\* complexity and maintainability
LexStrategy(file, ext, lines) ==
    BuildMetrics(Len(lines),
                 Cardinality({i \in DOMAIN lines : Strip(lines[i]) # <<>>}),
                 LexComments(ext, file.content, lines),
                 0, Number(100), <<>>,
                 IF ext \in JsExts
                 THEN _extract_dependencies(file.content, file.path, file.name)
                 ELSE NoDependencies)

Dispatch(file, ext) ==
    IF ext \in PyExts THEN PyStrategy(file, RawAnalyze(file.content))
    ELSE LexStrategy(file, ext, SplitLines(file.content))

\* the body of _get_code_metrics past the cache test: the CodeMetrics of the
\* file, or None, with what it logs
ComputeMetrics(file) ==
    IF ~CanRead(file) THEN MetricsFailed(file)
    ELSE Dispatch(file, Lower(Suffix(file.name)))

\* self.code_cache[str(path)] = metrics, when metrics were computed
Cached(file, cache, m) ==
    [value |-> m.value,
     logged |-> m.logged,
     opened |-> 1,
     cache |-> IF m.value = None THEN cache ELSE (file.path :> m.value) @@ cache]

\* _get_code_metrics(file_metadata): the cached object if there is one, else
\* the computed one, which is cached unless it is None
_get_code_metrics(file, cache) ==
    IF file.path \in DOMAIN cache
    THEN [value |-> cache[file.path], logged |-> {}, opened |-> 0, cache |-> cache]
    ELSE Cached(file, cache, ComputeMetrics(file))

(***************************************************************************)
(* SpecMetrics: _get_code_metrics applied to one file.                     *)
(***************************************************************************)
\* the longest file content, in pieces
MaxPieces == 3

\* the texts made of at most n pieces of P
RECURSIVE Texts(_, _)
Texts(P, n) ==
    IF n = 0 THEN {<<>>}
    ELSE Texts(P, n - 1) \cup {t \o q : t \in Texts(P, n - 1), q \in P}

PyPieces ==
    {<<"x">>, <<"#">>, <<" ">>, <<"\n">>, <<"(">>,
     <<"d","e","f"," ","f","(",")",":","x">>,
     <<"d","e","f"," ","g","(",")",":","x"," ","o","r"," ","x">>}
JsPieces   == {<<"/","/">>, <<"/","*">>, <<"*","/">>, <<"/">>, <<"x">>, <<" ">>, <<"\n">>}
HtmlPieces == {<<"<","!","-","-">>, <<"-","-",">">>, <<"<","!","-","-","x","-","-",">">>,
               <<"x">>, <<" ">>, <<"\n">>}
CssPieces  == {<<"/","*">>, <<"*","/">>, <<"/","*","x","*","/">>, <<"/">>, <<"x">>, <<"\n">>}
TextPieces == {<<"x">>, <<" ">>, <<"\n">>}

\* the pieces the content of a file of this name is made of
PiecesOf(name) ==
    LET ext == Lower(Suffix(name))
    IN  IF ext \in PyExts THEN PyPieces
        ELSE IF ext \in JsExts THEN JsPieces
        ELSE IF ext \in HtmlExts THEN HtmlPieces
        ELSE IF ext \in CssExts THEN CssPieces
        ELSE TextPieces

MetricNames ==
    {<<"a",".","p","y">>, <<"b",".","p","y","w">>, <<"a",".","j","s">>,
     <<"a",".","h","t","m","l">>, <<"a",".","c","s","s">>, <<"a",".","g","o">>}

\* the text made of k copies of piece
Repeat(piece, k) == [i \in 1..(k * Len(piece)) |-> piece[((i - 1) % Len(piece)) + 1]]

\* the numbers of non-blank lines around the thresholds of the length issue
\* and of the comment ratio (one comment line in ten lines)
LineCounts ==
    {LocWarning - 1, LocWarning, LocWarning + 1, LocMax - 1, LocMax, LocMax + 1}
ShortLineCounts ==
    {CommentRatioMinDen - 2, CommentRatioMinDen - 1, CommentRatioMinDen}

\* long files: a blank line, then k lines of code (Python and the generic
\* strategy); and a comment line, then k lines of code
LongNames == {<<"a",".","p","y">>, <<"a",".","j","s">>, <<"a",".","g","o">>}

CommentLine(name) ==
    IF Lower(Suffix(name)) \in PyExts THEN <<"#","\n">> ELSE <<"/","/","\n">>

LongFiles ==
    {[path |-> n, name |-> n, content |-> <<"\n">> \o Repeat(<<"x","\n">>, k),
      readable |-> TRUE, encoding |-> "utf-8"] :
        n \in {m \in LongNames : Lower(Suffix(m)) \notin JsExts}, k \in LineCounts}
    \cup {[path |-> n, name |-> n, content |-> CommentLine(n) \o Repeat(<<"x","\n">>, k),
           readable |-> TRUE, encoding |-> "utf-8"] : n \in LongNames, k \in ShortLineCounts}

\* the most lines of a JavaScript file made of comment lines
MaxJsLines == 3

\* lines that open, close, or open and close a block comment, line comments
\* and code
JsLines ==
    {<<"/","*">>, <<"*","/">>, <<"/","/">>, <<"x">>,
     <<"/","/"," ","*","/">>, <<"/","*"," ","*","/">>, <<"*","/"," ","/","*">>,
     <<"/","*"," ","*","/"," ","/","*">>}

\* the texts of up to n of these lines, each ended by a line break
RECURSIVE JsTexts(_)
JsTexts(n) ==
    IF n = 0 THEN {<<>>}
    ELSE JsTexts(n - 1) \cup {t \o l \o <<"\n">> : t \in JsTexts(n - 1), l \in JsLines}

JsBlockFiles ==
    {[path |-> <<"a",".","j","s">>, name |-> <<"a",".","j","s">>, content |-> c,
      readable |-> TRUE, encoding |-> "utf-8"] : c \in JsTexts(MaxJsLines)}

\* the files _get_code_metrics is applied to: every content, readable as
\* UTF-8, the short contents also unreadable or flagged binary, the long
\* files and the JavaScript files of comment lines
MetricFiles ==
    LongFiles \cup JsBlockFiles \cup
    {[path |-> n, name |-> n, content |-> c, readable |-> TRUE, encoding |-> "utf-8"] :
        n \in MetricNames, c \in Texts(TextPieces \cup {<<"#">>}, 0)}
    \cup UNION {{[path |-> n, name |-> n, content |-> c, readable |-> TRUE, encoding |-> "utf-8"] :
                    c \in Texts(PiecesOf(n), MaxPieces)} : n \in MetricNames}
    \cup UNION {{[path |-> n, name |-> n, content |-> c, readable |-> r, encoding |-> e] :
                    c \in Texts(PiecesOf(n), 1), r \in BOOLEAN, e \in {"utf-8", "binary"}} :
                n \in MetricNames}

InitMetrics ==
    /\ call \in {[fn |-> "_get_code_metrics", arg |-> f] : f \in MetricFiles}
    /\ ret = Pending
    /\ IdleAnalyzer

\* the most calls of _get_code_metrics on a file, and runs on a tree
MaxCalls == 2

\* what a call of _get_code_metrics on the file leaves behind: the cache and
\* the log as r has them, the file opened unless the cache answered, the
\* cache written when the metrics were computed
AfterMetrics(file, r) ==
    /\ code_cache' = r.cache
    /\ log' = log \cup r.logged
    /\ opened' = Bump(opened, file.path, r.opened)
    /\ written' = Bump(written, Slot("code_cache", file.path),
                       IF r.opened = 1 /\ r.value # None THEN 1 ELSE 0)

\* the call returns r.value
Returned(r) ==
    /\ ret' = [value |-> r.value]
    /\ AfterMetrics(call.arg, r)

\* a call of _get_code_metrics on the file, the first or a repeated one
CallGetCodeMetrics ==
    /\ call.fn = "_get_code_metrics"
    /\ calls < MaxCalls
    /\ \E r \in {_get_code_metrics(call.arg, code_cache)} : Returned(r)
    /\ previous' = ret
    /\ calls' = calls + 1
    /\ UNCHANGED <<call, runVars>>

NextMetrics == CallGetCodeMetrics

SpecMetrics == InitMetrics /\ [][NextMetrics]_vars

\* a CodeMetrics has been produced
Measured == call.fn = "_get_code_metrics" /\ ret # Pending /\ ret.value # None

\* C10: every CodeMetrics produced by _get_code_metrics, whatever the strategy
\* and the content, has sloc <= loc and comments <= loc.
C10_CountsWithinLoc ==
    Measured => ret.value.sloc <= ret.value.loc /\ ret.value.comments <= ret.value.loc

\* a block comment is open after the characters of the line from p on: '/*'
\* opens one outside a comment, the next '*/' closes it, and '//' outside a
\* block comment ends the line
RECURSIVE OpenFrom(_, _, _)
OpenFrom(line, p, open) ==
    IF p >= Len(line) THEN open
    ELSE IF open
    THEN IF line[p] = "*" /\ line[p + 1] = "/"
         THEN OpenFrom(line, p + 2, FALSE) ELSE OpenFrom(line, p + 1, TRUE)
    ELSE IF line[p] = "/" /\ line[p + 1] = "/" THEN FALSE
    ELSE IF line[p] = "/" /\ line[p + 1] = "*" THEN OpenFrom(line, p + 2, TRUE)
    ELSE OpenFrom(line, p + 1, FALSE)

\* a block comment is open after the first i lines
RECURSIVE OpenAfter(_, _)
OpenAfter(lines, i) ==
    IF i = 0 THEN FALSE ELSE OpenFrom(lines[i], 1, OpenAfter(lines, i - 1))

HasMarker(line) ==
    \/ StartsWith(Strip(line), <<"/","/">>)
    \/ Contains(line, <<"/","*">>)
    \/ Contains(line, <<"*","/">>)

\* the call measured a JavaScript or TypeScript file
JsMeasured == Measured /\ Lower(Suffix(call.arg.name)) \in JsExts

\* C24: in the JavaScript/TypeScript strategy the flag in_multiline is true
\* after a line exactly when a block comment opened by '/*' has not been
\* closed by '*/'; the lines counted as comments are the lines with a comment
\* marker and the lines inside an open block, each once, so that a line
\* without a marker after the block was closed is not counted.
C24_FlagTracksOpenBlock ==
    JsMeasured =>
        \A lines \in {SplitLines(call.arg.content)} :
            /\ \A i \in DOMAIN lines : JsFlag(lines, i) = OpenAfter(lines, i)
            /\ ret.value.comments
                  = Cardinality({i \in DOMAIN lines :
                                    HasMarker(lines[i]) \/ OpenAfter(lines, i - 1)})

\* the CodeMetrics m carries the issue with this text
HasIssue(m, text) == \E i \in DOMAIN m.issues : m.issues[i].issue = text

\* every issue of m with this text reports the value v
IssueValue(m, text, v) ==
    \A i \in DOMAIN m.issues : m.issues[i].issue = text => m.issues[i].value = v

\* C11: for a file with n non-blank lines (the sloc the strategy counted),
\* 'File too long: n lines' is emitted exactly when n > loc.max, only the
\* warning-level length issue exactly when loc.warning < n <= loc.max, no
\* length issue when n <= loc.warning; the two are never emitted together.
C11_LengthIssueByThreshold ==
    Measured =>
        /\ HasIssue(ret.value, "File too long") <=> ret.value.sloc > LocMax
        /\ HasIssue(ret.value, "Warning: File approaching maximum length")
              <=> (ret.value.sloc > LocWarning /\ ret.value.sloc <= LocMax)
        /\ IssueValue(ret.value, "File too long", ret.value.sloc)
        /\ IssueValue(ret.value, "Warning: File approaching maximum length", ret.value.sloc)
        /\ ~(/\ HasIssue(ret.value, "File too long")
              /\ HasIssue(ret.value, "Warning: File approaching maximum length"))

\* a file of loc.max + 1 non-blank lines has been measured and is too long
C11_Witness ==
    /\ Measured
    /\ ret.value.sloc = LocMax + 1
    /\ ret.value.loc > ret.value.sloc
    /\ HasIssue(ret.value, "File too long")

\* C12: comment_ratio is comments / non-blank lines, 0 without non-blank
\* lines; 'Low comment ratio' is emitted exactly when the ratio is strictly
\* below comment_ratio.min, with the ratio as a percentage; a file with no
\* counted comments always gets 'Low comment ratio: 0.00%'.
C12_LowCommentRatio ==
    Measured =>
        /\ HasIssue(ret.value, "Low comment ratio")
              <=> \/ ret.value.sloc = 0
                  \/ ret.value.comments * CommentRatioMinDen
                        < ret.value.sloc * CommentRatioMinNum
        /\ IssueValue(ret.value, "Low comment ratio",
                      PercentHundredths(ret.value.comments, ret.value.sloc))
        /\ ret.value.comments = 0
              => /\ HasIssue(ret.value, "Low comment ratio")
                 /\ IssueValue(ret.value, "Low comment ratio", 0)

\* a file with a comment has been measured and its ratio is below the minimum
C12_Witness ==
    /\ Measured
    /\ ret.value.comments > 0
    /\ ret.value.sloc > CommentRatioMinDen
    /\ HasIssue(ret.value, "Low comment ratio")

\* the call has returned
Answered == call.fn = "_get_code_metrics" /\ ret # Pending

\* the file takes the Python branch and is read
PyRead(file) == Lower(Suffix(file.name)) \in PyExts /\ CanRead(file)

\* cc_visit raised in the Python branch: the line counts were taken, the
\* file does not parse
ComplexityFailed(file) ==
    PyRead(file) /\ RawAnalyze(file.content).ok /\ ~cc_visit(file.content).ok

\* some log record names the path
LoggedFor(path) == \E r \in log : r.path = path

\* C17: within one run of one ProjectAnalyzer, a repeated call of
\* _get_code_metrics for the same path returns the same CodeMetrics object as
\* the first call and does not read or analyze the file again, whatever the
\* outcome of the first call: after the second call the return values agree
\* and the file has been opened once at most.
C17_RepeatedCallIsCached ==
    call.fn = "_get_code_metrics" /\ calls >= 2 =>
        /\ ret = previous
        /\ Counted(opened, call.arg.path) <= 1

\* C15: every failure the pipeline recovers from leaves a log record or an
\* issue string.  For one call of _get_code_metrics: a file whose metrics
\* fail (None is returned) and a file whose complexity computation fails
\* (the defaults are kept) each have a log record naming the file.
C15_RecoveredFailuresAreLogged ==
    Answered =>
        /\ ret.value = None => LoggedFor(call.arg.path)
        /\ ComplexityFailed(call.arg) => LoggedFor(call.arg.path)

\* C16: when the complexity computation of the Python strategy fails on a
\* file with malformed syntax, _get_code_metrics still returns a CodeMetrics
\* for the file, with complexity 0 and maintainability 100, not None.
C16_ComplexityFailureKeepsDefaults ==
    Answered /\ ComplexityFailed(call.arg) =>
        /\ ret.value # None
        /\ ret.value.complexity = 0
        /\ ret.value.maintainability = Number(100)
        /\ ret.value.functions = <<>>

\* a Python file that does not parse has been measured
C16_Witness ==
    /\ Answered
    /\ ComplexityFailed(call.arg)
    /\ ret.value # None
    /\ ret.value.sloc > 0
    /\ ret.value.maintainability = Number(100)

(***************************************************************************)
(* _find_duplicates: the TF-IDF vectors of scikit-learn's TfidfVectorizer  *)
(* as __init__ configures it (english stop words, word n-grams of 1 to 3   *)
(* tokens) and their pairwise cosine similarity.  The max_features cap of  *)
(* 1000 terms is beyond every vocabulary built here.                       *)
(***************************************************************************)
Digits == {"0","1","2","3","4","5","6","7","8","9"}

\* \w of the default token pattern (?u)\b\w\w+\b
IsWordChar(c) ==
    \/ \E i \in DOMAIN LowerCase : LowerCase[i] = c \/ UpperCase[i] = c
    \/ c \in Digits
    \/ c = "_"

\* the run of word characters start..i-1 is a token when it has two or more
Flush(acc, s, start, i) ==
    IF start > 0 /\ i - start >= 2 THEN Append(acc, Slice(s, start, i - 1)) ELSE acc

\* re.findall(token_pattern, s): the maximal runs of two or more word characters
RECURSIVE WordRuns(_, _, _, _)
WordRuns(s, i, start, acc) ==
    IF i > Len(s) THEN Flush(acc, s, start, i)
    ELSE WordRuns(s, i + 1,
                  IF ~IsWordChar(s[i]) THEN 0 ELSE IF start = 0 THEN i ELSE start,
                  IF IsWordChar(s[i]) THEN acc ELSE Flush(acc, s, start, i))

\* the members of sklearn's ENGLISH_STOP_WORDS spelled with the letters a, b, f, i, x
ENGLISH_STOP_WORDS == {<<"a">>, <<"i">>, <<"i","f">>}

RemoveStopWords(tokens) == SelectSeq(tokens, LAMBDA t : t \notin ENGLISH_STOP_WORDS)

\* " ".join(tokens)
RECURSIVE Join(_)
Join(tokens) ==
    IF Len(tokens) = 0 THEN <<>>
    ELSE IF Len(tokens) = 1 THEN tokens[1]
    ELSE tokens[1] \o <<" ">> \o Join(Tail(tokens))

\* the n-grams of a token list, in order
NGrams(tokens, n) ==
    IF Len(tokens) < n THEN <<>>
    ELSE [i \in 1..(Len(tokens) - n + 1) |-> Join(SubSeq(tokens, i, i + n - 1))]

\* _word_ngrams with ngram_range=(1, 3): the tokens, then the 2-grams, then the 3-grams
WordNGrams(tokens) == tokens \o NGrams(tokens, 2) \o NGrams(tokens, 3)

\* build_analyzer(): lower-case, tokenize, drop stop words, form n-grams
Analyze(content) == WordNGrams(RemoveStopWords(WordRuns(Lower(content), 1, 0, <<>>)))

\* raw term count of t in the terms of one document
Tf(terms, t) == Cardinality({p \in DOMAIN terms : terms[p] = t})

\* the number of documents holding t
Df(allTerms, t) ==
    Cardinality({d \in DOMAIN allTerms : \E p \in DOMAIN allTerms[d] : allTerms[d][p] = t})

\* smooth idf, ln((1 + n) / (1 + df)) + 1, in tenths, rounded: IdfTenths[n][df]
IdfTenths ==
    << <<10>>,
       <<14, 10>>,
       <<17, 13, 10>>,
       <<19, 15, 12, 10>>,
       <<21, 17, 14, 12, 10>> >>

Idf(allTerms, t) == IdfTenths[Len(allTerms)][Df(allTerms, t)]

Square(n) == n * n

\* the dot product of the tf-idf vectors of the term lists a and b: every
\* occurrence in a of a term t adds tf_b(t) * idf(t)^2
RECURSIVE Dot(_, _, _, _, _)
Dot(allTerms, a, b, p, acc) ==
    IF p > Len(a) THEN acc
    ELSE Dot(allTerms, a, b, p + 1, acc + Tf(b, a[p]) * Square(Idf(allTerms, a[p])))

\* SIMILARITY_THRESHOLD = 0.8 as a fraction
ThresholdNum == 4
ThresholdDen == 5

\* similarity > SIMILARITY_THRESHOLD for the cosine dot / sqrt(na * nb) of two
\* vectors without negative entries; the cosine with a zero vector is 0
Exceeds(dot, na, nb) ==
    /\ dot > 0
    /\ Square(ThresholdDen) * Square(dot) > Square(ThresholdNum) * na * nb

\* similarity_matrix[i][j] > SIMILARITY_THRESHOLD
Similar(allTerms, i, j) ==
    Exceeds(Dot(allTerms, allTerms[i], allTerms[j], 1, 0),
            Dot(allTerms, allTerms[i], allTerms[i], 1, 0),
            Dot(allTerms, allTerms[j], allTerms[j], 1, 0))

\* the cosine similarity_matrix[i][j], kept as dot / sqrt(na * nb)
Cosine(allTerms, i, j) ==
    [dot |-> Dot(allTerms, allTerms[i], allTerms[j], 1, 0),
     na  |-> Dot(allTerms, allTerms[i], allTerms[i], 1, 0),
     nb  |-> Dot(allTerms, allTerms[j], allTerms[j], 1, 0)]

\* a similarity of exactly 1
IsOne(similarity) ==
    similarity.dot > 0 /\ Square(similarity.dot) = similarity.na * similarity.nb

\* the contents read file by file; a file that cannot be read counts as ""
Contents(group) ==
    [i \in DOMAIN group |-> IF CanRead(group[i]) THEN group[i].content ELSE <<>>]

ReadFailures(group) ==
    {[level |-> "error", what |-> "Failed to read", path |-> group[i].path] :
        i \in {k \in DOMAIN group : ~CanRead(group[k])}}

\* the terms of every document, as fit_transform's analyzer yields them
AllTerms(group) == [i \in DOMAIN group |-> Analyze(Contents(group)[i])]

\* fit_transform raises ValueError("empty vocabulary; ...") when no document has a term
EmptyVocabulary(allTerms) == \A d \in DOMAIN allTerms : Len(allTerms[d]) = 0

\* the first j of "for j in range(i + 1, len(files))", 1-based; a variant
\* that starts the inner loop at i itself
SamePartner(i) == i
FirstPartner(i) == i + 1

DuplicatePair(group, allTerms, i, j) ==
    [file1 |-> group[i].path, file2 |-> group[j].path, similarity |-> Cosine(allTerms, i, j)]

\* the two nested loops over the similarity matrix, appending in loop order
RECURSIVE SimilarPairs(_, _, _, _, _)
SimilarPairs(group, allTerms, i, j, acc) ==
    IF i > Len(group) THEN acc
    ELSE SimilarPairs(group, allTerms,
                      IF j > Len(group) THEN i + 1 ELSE i,
                      IF j > Len(group) THEN FirstPartner(i + 1) ELSE j + 1,
                      IF j <= Len(group) /\ Similar(allTerms, i, j)
                      THEN Append(acc, DuplicatePair(group, allTerms, i, j))
                      ELSE acc)

\* the try block past the reads
DuplicatesOf(group, allTerms) ==
    IF Len(group) = 0 THEN [value |-> <<>>, logged |-> {}]
    ELSE IF EmptyVocabulary(allTerms)
    THEN [value |-> <<>>, logged |-> {[level |-> "error", what |-> "Failed to find duplicates"]}]
    ELSE [value |-> SimilarPairs(group, allTerms, 1, FirstPartner(1), <<>>), logged |-> {}]

WithReadFailures(group, r) ==
    [value |-> r.value, logged |-> r.logged \cup ReadFailures(group)]

\* _find_duplicates(files): the list of duplicate pairs, with what it logs
_find_duplicates(group) == WithReadFailures(group, DuplicatesOf(group, AllTerms(group)))

(***************************************************************************)
(* SpecDuplicates: _find_duplicates applied to one language group.         *)
(***************************************************************************)
\* the largest group
MaxGroup == 3

\* the contents of the files of a group: empty, a stop word, one-letter
\* words, one to three tokens, repeated tokens, a stop word between tokens,
\* upper case
DupContents ==
    {<<>>,
     <<"i","f">>,
     <<"a"," ","b">>,
     <<"a","b">>,
     <<"A","B">>,
     <<"a","b"," ","a","b">>,
     <<"a","b"," ","a","b"," ","a","b">>,
     <<"a","b"," ","b","a"," ","x","x">>,
     <<"a","b"," ","i","f"," ","b","a">>}

\* the file at position i of the group: any content, readable as UTF-8, and
\* for two of the contents also unreadable or flagged binary
DupFiles(i) ==
    LET path == <<LowerCase[i], ".", "p", "y">>
    IN  {[path |-> path, name |-> path, content |-> c, readable |-> TRUE, encoding |-> "utf-8"] :
            c \in DupContents}
        \cup {[path |-> path, name |-> path, content |-> <<"a","b">>, readable |-> FALSE,
               encoding |-> "utf-8"],
              [path |-> path, name |-> path, content |-> <<"a","b">>, readable |-> TRUE,
               encoding |-> "binary"]}

\* the groups of n files, in discovery order
RECURSIVE Groups(_)
Groups(n) ==
    IF n = 0 THEN {<<>>}
    ELSE {Append(gr, f) : gr \in Groups(n - 1), f \in DupFiles(n)}

InitDuplicates ==
    /\ call \in {[fn |-> "_find_duplicates", arg |-> gr] :
                    gr \in UNION {Groups(n) : n \in 0..MaxGroup}}
    /\ ret = Pending
    /\ IdleAnalyzer

CallFindDuplicates ==
    /\ call.fn = "_find_duplicates"
    /\ ret = Pending
    /\ \E r \in {_find_duplicates(call.arg)} :
          /\ ret' = [value |-> r.value]
          /\ log' = log \cup r.logged
    /\ calls' = calls + 1
    /\ UNCHANGED <<call, runVars, code_cache, previous, opened, written>>

NextDuplicates == CallFindDuplicates

SpecDuplicates == InitDuplicates /\ [][NextDuplicates]_vars

\* _find_duplicates has returned
Found == call.fn = "_find_duplicates" /\ ret # Pending

\* the reported pair d is the files at positions i and j
IsPair(d, group, i, j) == d.file1 = group[i].path /\ d.file2 = group[j].path

\* dups holds the pairs i < j of files whose similarity exceeds the
\* threshold, each once, and nothing else
NearDuplicatesOnly(group, allTerms, dups) ==
    /\ \A k \in DOMAIN dups : \E i, j \in DOMAIN group :
          i < j /\ IsPair(dups[k], group, i, j) /\ Similar(allTerms, i, j)
    /\ \A i, j \in DOMAIN group :
          i < j /\ Similar(allTerms, i, j) => \E k \in DOMAIN dups : IsPair(dups[k], group, i, j)
    /\ \A k \in DOMAIN dups : dups[k].file1 # dups[k].file2
    /\ \A k, l \in DOMAIN dups :
          k # l => {dups[k].file1, dups[k].file2} # {dups[l].file1, dups[l].file2}

\* C7: _find_duplicates reports a pair (file1, file2) only if file1 precedes
\* file2 in discovery order and their similarity exceeds the threshold, reports
\* every such pair, never pairs a file with itself and never reports the same
\* unordered pair twice.
C7_PairsAreTheNearDuplicates ==
    Found => \A allTerms \in {AllTerms(call.arg)} :
                 NearDuplicatesOnly(call.arg, allTerms, ret.value)

\* some pair of files shares terms and is not reported
SomeRejected(group, allTerms) ==
    \E i, j \in DOMAIN group :
        i < j /\ ~Similar(allTerms, i, j) /\ Cosine(allTerms, i, j).dot > 0

\* a group of which two pairs are reported and a third, whose files share
\* terms, is not
C7_Witness ==
    /\ Found
    /\ Len(ret.value) >= 2
    /\ \E allTerms \in {AllTerms(call.arg)} : SomeRejected(call.arg, allTerms)

\* the files of equal content are all reported, with similarity 1
IdenticalReported(group, dups) ==
    \A i, j \in DOMAIN group :
        i < j /\ group[i].content = group[j].content
            => \E k \in DOMAIN dups : IsPair(dups[k], group, i, j) /\ IsOne(dups[k].similarity)

\* C8: any two files of a group with byte-identical content are reported as a
\* duplicate pair with similarity 1.0, whatever the content.
C8_IdenticalFilesReported ==
    Found => IdenticalReported(call.arg, ret.value)

(***************************************************************************)
(* The run of analyze_project.                                             *)
(*                                                                         *)
(* A directory tree is its root ("ok", "missing" or "unreadable") and,     *)
(* for a root that can be listed, the files in the order os.walk yields    *)
(* them.  A file is a record                                               *)
(*   dir        the directories between the root and the file              *)
(*   name       the file name                                              *)
(*   kind       "file", "unreadable" (no read permission), "broken_link"   *)
(*              (a symbolic link to nothing: stat fails) or "large"        *)
(*              (more than MAX_FILE_SIZE bytes; its content is never read  *)
(*              and is not modelled)                                       *)
(*   mime_type  what libmagic answers for the content                      *)
(*   content    the text of the file                                       *)
(* The tree does not change during a run.  A path is kept together with    *)
(* the file it names; creation and modification times are left out.        *)
(***************************************************************************)
MAX_FILE_SIZE == 10485760

\* st_size: a file of kind "full" has exactly MAX_FILE_SIZE bytes
SizeOf(file) ==
    IF file.kind = "large" THEN MAX_FILE_SIZE + 1
    ELSE IF file.kind = "full" THEN MAX_FILE_SIZE
    ELSE Len(file.content)

\* str(Path(root) / filename), relative to the root
RECURSIVE DirPrefix(_)
DirPrefix(dir) == IF Len(dir) = 0 THEN <<>> ELSE dir[1] \o <<"/">> \o DirPrefix(Tail(dir))

PathOf(file) == DirPrefix(file.dir) \o file.name

\* os.walk never enters a directory whose name starts with '.', and a file
\* name that starts with '.' is skipped
Ignored(file) ==
    \/ \E k \in DOMAIN file.dir : StartsWith(file.dir[k], <<".">>)
    \/ StartsWith(file.name, <<".">>)

\* filepath.stat() raises for this file
StatFails(file) == ~Ignored(file) /\ file.kind = "broken_link"

Kept(file) == ~Ignored(file) /\ SizeOf(file) <= MAX_FILE_SIZE

SkippedLarge(file) ==
    IF ~Ignored(file) /\ SizeOf(file) > MAX_FILE_SIZE
    THEN {[level |-> "warning", what |-> "Skipping large file", path |-> PathOf(file)]}
    ELSE {}

\* a variant of the loops of _collect_files: a kept file is listed twice
RECURSIVE CollectTwice(_, _, _, _)
CollectTwice(entries, i, acc, logged) ==
    IF i > Len(entries) THEN [raised |-> FALSE, files |-> acc, logged |-> logged]
    ELSE IF StatFails(entries[i])
    THEN [raised |-> TRUE, exception |-> "FileNotFoundError", logged |-> logged]
    ELSE CollectTwice(entries, i + 1,
                      IF Kept(entries[i]) THEN acc \o <<entries[i], entries[i]>> ELSE acc,
                      logged \cup SkippedLarge(entries[i]))

\* the loops of _collect_files from entry i on: the files kept so far, or the
\* exception of the first stat that fails
RECURSIVE Collect(_, _, _, _)
Collect(entries, i, acc, logged) ==
    IF i > Len(entries) THEN [raised |-> FALSE, files |-> acc, logged |-> logged]
    ELSE IF StatFails(entries[i])
    THEN [raised |-> TRUE, exception |-> "FileNotFoundError", logged |-> logged]
    ELSE Collect(entries, i + 1,
                 IF Kept(entries[i]) THEN Append(acc, entries[i]) ELSE acc,
                 logged \cup SkippedLarge(entries[i]))

\* _collect_files(): os.walk yields nothing for a root that is missing or
\* cannot be listed, since it ignores the errors of listing
_collect_files(tree) ==
    IF tree.root # "ok" THEN [raised |-> FALSE, files |-> <<>>, logged |-> {}]
    ELSE Collect(tree.entries, 1, <<>>, {})

\* hashlib.sha256 of the content, kept as the content it digests
_calculate_file_hash(file) == [sha256 |-> file.content]

IsText(mime_type) == StartsWith(mime_type, <<"t","e","x","t","/">>)

\* chardet.detect on the first chunk of an ASCII text
DetectedEncoding(file) == IF IsText(file.mime_type) THEN "ascii" ELSE "binary"

\* the FileMetadata of a file, together with the file that its path names
FileMetadata(file) ==
    [path |-> PathOf(file),
     name |-> file.name,
     size |-> SizeOf(file),
     mime_type |-> file.mime_type,
     encoding |-> DetectedEncoding(file),
     category |-> _categorize_file(file.name),
     is_binary |-> ~IsText(file.mime_type),
     hash |-> _calculate_file_hash(file),
     content |-> file.content,
     readable |-> file.kind # "unreadable"]

\* _analyze_file(filepath): the metadata, or None with an error logged when
\* the file cannot be opened
_analyze_file(file) ==
    IF file.kind = "unreadable"
    THEN [value |-> None,
          logged |-> {[level |-> "error", what |-> "Failed to analyze file", path |-> PathOf(file)]}]
    ELSE [value |-> FileMetadata(file), logged |-> {}]

\* the entry of a category with one more file
WithFile(old, file) ==
    [count |-> old.count + 1,
     total_size |-> old.total_size + file.size,
     files |-> Append(old.files, [path |-> file.path, size |-> file.size,
                                  mime_type |-> file.mime_type])]

NoFiles == [count |-> 0, total_size |-> 0, files |-> <<>>]

AddToCategory(categories, file) ==
    (file.category :>
        WithFile(IF file.category \in DOMAIN categories THEN categories[file.category]
                 ELSE NoFiles, file)) @@ categories

\* _categorize_files(files): category -> count, total size and file list;
\* the failed analyses (None) are skipped
RECURSIVE CategorizeFrom(_, _, _)
CategorizeFrom(metadata, i, categories) ==
    IF i > Len(metadata) THEN categories
    ELSE CategorizeFrom(metadata, i + 1,
                        IF metadata[i] = None THEN categories
                        ELSE AddToCategory(categories, metadata[i]))

_categorize_files(metadata) == CategorizeFrom(metadata, 1, <<>>)

\* f.category.startswith('code/')
IsCode(file) == Len(file.category) >= 2 /\ file.category[1] = "code"

\* file.category.split('/')[1]
LangOf(file) == file.category[2]

\* by_language.setdefault(lang, []).append(file)
AddToLanguage(groups, file) ==
    IF \E k \in DOMAIN groups : groups[k].lang = LangOf(file)
    THEN [k \in DOMAIN groups |->
            IF groups[k].lang = LangOf(file)
            THEN [lang |-> groups[k].lang, files |-> Append(groups[k].files, file)]
            ELSE groups[k]]
    ELSE Append(groups, [lang |-> LangOf(file), files |-> <<file>>])

\* the grouping loop of _analyze_code_files
RECURSIVE GroupFrom(_, _, _)
GroupFrom(code, i, groups) ==
    IF i > Len(code) THEN groups
    ELSE GroupFrom(code, i + 1, AddToLanguage(groups, code[i]))

\* sum(...) over a list of integers
RECURSIVE SumSeq(_, _, _)
SumSeq(s, i, acc) == IF i > Len(s) THEN acc ELSE SumSeq(s, i + 1, acc + s[i])

RECURSIVE GCD(_, _)
GCD(a, b) == IF b = 0 THEN a ELSE GCD(b, a % b)

\* the quotient n / d of true division, as a fraction in lowest terms
Ratio(n, d) == [num |-> n \div GCD(n, d), den |-> d \div GCD(n, d)]

RatAdd(a, b) == Ratio(a.num * b.den + b.num * a.den, a.den * b.den)

\* [m for m in file_metrics if m]
ValidMetrics(results) == SelectSeq(results, LAMBDA m : m # None)

\* _aggregate_issues(file_metrics)
RECURSIVE IssuesFrom(_, _, _)
IssuesFrom(valid, i, acc) ==
    IF i > Len(valid) THEN acc ELSE IssuesFrom(valid, i + 1, acc \o valid[i].issues)

_aggregate_issues(valid) == IssuesFrom(valid, 1, <<>>)

\* len(valid_metrics), the divisor of the two averages
Denominator(valid, group) == Len(valid)

\* the entry of a language with valid metrics
LanguageEntry(group, valid, duplicates) ==
    [files |-> Len(group),
     total_loc |-> SumSeq([i \in DOMAIN valid |-> valid[i].loc], 1, 0),
     avg_complexity |->
        Ratio(SumSeq([i \in DOMAIN valid |-> valid[i].complexity], 1, 0),
              Denominator(valid, group)),
     avg_maintainability |->
        Ratio(SumSeq([i \in DOMAIN valid |-> valid[i].maintainability.value], 1, 0),
              Denominator(valid, group)),
     duplicates |-> duplicates,
     issues |-> _aggregate_issues(valid)]

\* the zero-filled entry of a language without valid metrics
ZeroEntry(group) ==
    [files |-> Len(group),
     total_loc |-> 0,
     avg_complexity |-> Ratio(0, 1),
     avg_maintainability |-> Ratio(0, 1),
     duplicates |-> <<>>,
     issues |-> <<>>]

\* sum(m.maintainability ...) raises TypeError when a maintainability is the
\* report of h_visit, which is no number
SumRaises(valid) == \E i \in DOMAIN valid : valid[i].maintainability.type # "number"

\* one pass of the loop over the language groups, after the metric tasks:
\* the entry added for the language, if any, and what is logged
GroupOutcome(lang, group, valid, dups) ==
    IF Len(valid) = 0
    THEN [added |-> TRUE, entry |-> ZeroEntry(group),
          logged |-> dups.logged \cup {[level |-> "warning", what |-> "No valid metrics found", lang |-> lang]}]
    ELSE IF SumRaises(valid)
    THEN [added |-> FALSE,
          logged |-> dups.logged \cup {[level |-> "error", what |-> "Failed to analyze files", lang |-> lang]}]
    ELSE [added |-> TRUE, entry |-> LanguageEntry(group, valid, dups.value),
          logged |-> dups.logged]

\* sums over the keys of a dict
RECURSIVE SumOver(_, _)
SumPick(S, f, x) == f[x] + SumOver(S \ {x}, f)
SumOver(S, f) == IF S = {} THEN 0 ELSE SumPick(S, f, CHOOSE x \in S : TRUE)

RECURSIVE RatSumOver(_, _)
RatSumPick(S, f, x) == RatAdd(f[x], RatSumOver(S \ {x}, f))
RatSumOver(S, f) == IF S = {} THEN Ratio(0, 1) ELSE RatSumPick(S, f, CHOOSE x \in S : TRUE)

\* a variant of the division: without the test for a language, the division
\* by len(languages) = 0 raises
MeanOverUnguarded(total, n) ==
    IF n = 0 THEN [raised |-> "ZeroDivisionError"] ELSE Ratio(total.num, total.den * n)

\* avg /= len(languages), when there is a language
MeanOver(total, n) == IF n = 0 THEN total ELSE Ratio(total.num, total.den * n)

\* a variant of the summary: the averages weigh a language by its files
WeightedMean(code_metrics, avg, n) ==
    IF n = 0 THEN Ratio(0, 1)
    ELSE MeanOver(RatSumOver(DOMAIN code_metrics,
                             [l \in DOMAIN code_metrics |->
                                 Ratio(avg[l].num * code_metrics[l].files, avg[l].den)]),
                  n)

SummaryWeightedByFiles(categories, code_metrics) ==
    [total_files |-> SumOver(DOMAIN categories, [c \in DOMAIN categories |-> categories[c].count]),
     total_size |-> SumOver(DOMAIN categories, [c \in DOMAIN categories |-> categories[c].total_size]),
     languages |-> DOMAIN code_metrics,
     code_stats |->
        [total_loc |-> SumOver(DOMAIN code_metrics,
                               [l \in DOMAIN code_metrics |-> code_metrics[l].total_loc]),
         avg_complexity |->
            WeightedMean(code_metrics,
                         [l \in DOMAIN code_metrics |-> code_metrics[l].avg_complexity],
                         SumOver(DOMAIN code_metrics,
                                 [l \in DOMAIN code_metrics |-> code_metrics[l].files])),
         avg_maintainability |->
            WeightedMean(code_metrics,
                         [l \in DOMAIN code_metrics |-> code_metrics[l].avg_maintainability],
                         SumOver(DOMAIN code_metrics,
                                 [l \in DOMAIN code_metrics |-> code_metrics[l].files])),
         total_issues |-> SumOver(DOMAIN code_metrics,
                                  [l \in DOMAIN code_metrics |-> Len(code_metrics[l].issues)])],
     categories |-> [c \in DOMAIN categories |-> categories[c].count]]

\* _generate_project_summary(categorized_files, code_metrics)
_generate_project_summary(categories, code_metrics) ==
    [total_files |-> SumOver(DOMAIN categories, [c \in DOMAIN categories |-> categories[c].count]),
     total_size |-> SumOver(DOMAIN categories, [c \in DOMAIN categories |-> categories[c].total_size]),
     languages |-> DOMAIN code_metrics,
     code_stats |->
        [total_loc |-> SumOver(DOMAIN code_metrics,
                               [l \in DOMAIN code_metrics |-> code_metrics[l].total_loc]),
         avg_complexity |->
            MeanOver(RatSumOver(DOMAIN code_metrics,
                                [l \in DOMAIN code_metrics |-> code_metrics[l].avg_complexity]),
                     Cardinality(DOMAIN code_metrics)),
         avg_maintainability |->
            MeanOver(RatSumOver(DOMAIN code_metrics,
                                [l \in DOMAIN code_metrics |-> code_metrics[l].avg_maintainability]),
                     Cardinality(DOMAIN code_metrics)),
         total_issues |-> SumOver(DOMAIN code_metrics,
                                  [l \in DOMAIN code_metrics |-> Len(code_metrics[l].issues)])],
     categories |-> [c \in DOMAIN categories |-> categories[c].count]]

(***************************************************************************)
(* SpecCollect: _collect_files applied to the listing of a root.           *)
(***************************************************************************)
\* the most entries of a listing
MaxEntries == 3

DOT_GIT == <<".","g","i","t">>
SRC == <<"s","r","c">>

\* the entries at position i of a listing: a file of the root, a file whose
\* name starts with '.', a file of exactly MAX_FILE_SIZE bytes, an oversized
\* file, a broken link, a file of src, a file of .git, a file of src/.git
WalkEntries(i) ==
    {[dir |-> d.dir, name |-> d.dot \o <<LowerCase[i]>> \o <<".","j","s">>, kind |-> d.kind,
      content |-> <<"x">>] :
        d \in {[dir |-> <<>>, dot |-> <<>>, kind |-> "file"],
                [dir |-> <<>>, dot |-> <<".">>, kind |-> "file"],
                [dir |-> <<>>, dot |-> <<>>, kind |-> "full"],
                [dir |-> <<>>, dot |-> <<>>, kind |-> "large"],
                [dir |-> <<>>, dot |-> <<>>, kind |-> "broken_link"],
                [dir |-> <<SRC>>, dot |-> <<>>, kind |-> "file"],
                [dir |-> <<DOT_GIT>>, dot |-> <<>>, kind |-> "file"],
                [dir |-> <<SRC, DOT_GIT>>, dot |-> <<>>, kind |-> "file"]}}

RECURSIVE WalkListings(_)
WalkListings(n) ==
    IF n = 0 THEN {<<>>}
    ELSE {Append(l, f) : l \in WalkListings(n - 1), f \in WalkEntries(n)}

\* os.walk is top-down: the files of a directory come before those of the
\* directories below it
IsTopDown(entries) ==
    \A i, j \in DOMAIN entries : i < j => Len(entries[i].dir) <= Len(entries[j].dir)

InitCollect ==
    /\ call \in {[fn |-> "_collect_files", arg |-> [root |-> "ok", entries |-> l]] :
                    l \in {e \in UNION {WalkListings(n) : n \in 0..MaxEntries} : IsTopDown(e)}}
    /\ ret = Pending
    /\ IdleAnalyzer

CallCollectFiles ==
    /\ call.fn = "_collect_files"
    /\ ret = Pending
    /\ \E r \in {_collect_files(call.arg)} :
          /\ ret' = IF r.raised THEN [raised |-> r.exception] ELSE [value |-> r.files]
          /\ log' = log \cup r.logged
    /\ calls' = calls + 1
    /\ UNCHANGED <<call, runVars, code_cache, previous, opened, written>>

NextCollect == CallCollectFiles

SpecCollect == InitCollect /\ [][NextCollect]_vars

\* the entries of a listing
Listed(entries) == {entries[i] : i \in DOMAIN entries}

\* the call of _collect_files has ended
Collected == call.fn = "_collect_files" /\ ret # Pending

\* no component of the directory and not the name starts with '.', and the
\* size is at most MAX_FILE_SIZE
Eligible(file) ==
    /\ \A k \in DOMAIN file.dir : ~StartsWith(file.dir[k], <<".">>)
    /\ ~StartsWith(file.name, <<".">>)
    /\ file.kind # "broken_link"
    /\ SizeOf(file) <= MAX_FILE_SIZE

Oversized(file) ==
    /\ \A k \in DOMAIN file.dir : ~StartsWith(file.dir[k], <<".">>)
    /\ ~StartsWith(file.name, <<".">>)
    /\ file.kind # "broken_link"
    /\ SizeOf(file) > MAX_FILE_SIZE

\* C22: _collect_files returns exactly the files under the root without a
\* directory component or a name that starts with '.', of at most
\* MAX_FILE_SIZE bytes (a file of exactly MAX_FILE_SIZE bytes is kept), each
\* once; an oversized file is skipped with a warning and no error.
C22_CollectsEligibleFilesOnce ==
    Collected =>
        /\ "value" \in DOMAIN ret
        /\ \A f \in Listed(call.arg.entries) :
              Cardinality({i \in DOMAIN ret.value : ret.value[i] = f})
                 = (IF Eligible(f) THEN 1 ELSE 0)
        /\ \A i \in DOMAIN ret.value : ret.value[i] \in Listed(call.arg.entries)
        /\ \A f \in Listed(call.arg.entries) :
              Oversized(f) =>
                 [level |-> "warning", what |-> "Skipping large file", path |-> PathOf(f)] \in log
        /\ \A e \in log : e.level # "error"

(***************************************************************************)
(* SpecSummary: _generate_project_summary applied to the categories and    *)
(* the language metrics of a run.                                          *)
(***************************************************************************)
\* the most languages of the metrics
MaxLanguages == 2

SummaryLanguages == <<"python", "javascript", "go", "java">>

\* the entries of a language: one or two files; no lines and no issue, or
\* lines and an issue; averages 0 and 0, 1/2 and 100, 2 and 50
AnIssue == [issue |-> "Low comment ratio", value |-> 0]

LanguageEntries ==
    {[files |-> n,
      total_loc |-> t.loc,
      avg_complexity |-> a.complexity,
      avg_maintainability |-> a.maintainability,
      duplicates |-> <<>>,
      issues |-> t.issues] :
        n \in 1..2,
        t \in {[loc |-> 0, issues |-> <<>>], [loc |-> 3, issues |-> <<AnIssue>>],
                [loc |-> 5, issues |-> <<AnIssue, AnIssue>>]},
        a \in {[complexity |-> Ratio(0, 1), maintainability |-> Ratio(0, 1)],
                [complexity |-> Ratio(1, 2), maintainability |-> Ratio(100, 1)],
                [complexity |-> Ratio(2, 1), maintainability |-> Ratio(50, 1)]}}

\* the metrics of the first n languages or of fewer
RECURSIVE MetricsOver(_)
MetricsOver(n) ==
    IF n = 0 THEN {<<>>}
    ELSE MetricsOver(n - 1)
            \cup {(SummaryLanguages[n] :> e) @@ m : e \in LanguageEntries, m \in MetricsOver(n - 1)}

\* the categories of a run over no file, over a document and two Python
\* sources, and over these and a JavaScript source
SummaryCategories ==
    {<<>>,
     (<<"documentation">> :> [count |-> 1, total_size |-> 4, files |-> <<>>])
        @@ (<<"code", "python">> :> [count |-> 2, total_size |-> 6, files |-> <<>>]),
     (<<"documentation">> :> [count |-> 1, total_size |-> 4, files |-> <<>>])
        @@ (<<"code", "python">> :> [count |-> 2, total_size |-> 6, files |-> <<>>])
        @@ (<<"code", "javascript">> :> [count |-> 1, total_size |-> 2, files |-> <<>>])}

InitSummary ==
    /\ call \in {[fn |-> "_generate_project_summary",
                   arg |-> [categories |-> c, code_metrics |-> m]] :
                    c \in SummaryCategories, m \in MetricsOver(MaxLanguages)}
    /\ ret = Pending
    /\ IdleAnalyzer

CallGenerateSummary ==
    /\ call.fn = "_generate_project_summary"
    /\ ret = Pending
    /\ ret' = [value |-> _generate_project_summary(call.arg.categories, call.arg.code_metrics)]
    /\ calls' = calls + 1
    /\ UNCHANGED <<call, runVars, code_cache, log, previous, opened, written>>

NextSummary == CallGenerateSummary

SpecSummary == InitSummary /\ [][NextSummary]_vars

\* the summary has been generated
Summarized == call.fn = "_generate_project_summary" /\ ret # Pending

\* n times the average is the sum of the averages of the languages
IsMeanOf(average, total, n) ==
    IF n = 0 THEN average = Ratio(0, 1)
    ELSE average.num * n * total.den = total.num * average.den

\* C21: avg_complexity and avg_maintainability of the summary are the
\* unweighted arithmetic means of the averages of the languages present in
\* the metrics, whatever their file counts; total_loc and total_issues are
\* the sums of the total_loc and of the lengths of the issue lists of the
\* languages.
C21_MeanOfLanguageMeans ==
    Summarized =>
        \A m \in {call.arg.code_metrics} :
            /\ IsMeanOf(ret.value.code_stats.avg_complexity,
                        RatSumOver(DOMAIN m, [l \in DOMAIN m |-> m[l].avg_complexity]),
                        Cardinality(DOMAIN m))
            /\ IsMeanOf(ret.value.code_stats.avg_maintainability,
                        RatSumOver(DOMAIN m, [l \in DOMAIN m |-> m[l].avg_maintainability]),
                        Cardinality(DOMAIN m))
            /\ ret.value.code_stats.total_loc
                  = SumOver(DOMAIN m, [l \in DOMAIN m |-> m[l].total_loc])
            /\ ret.value.code_stats.total_issues
                  = SumOver(DOMAIN m, [l \in DOMAIN m |-> Len(m[l].issues)])

\* the summary of two languages of different file counts and averages
C21_Witness ==
    /\ Summarized
    /\ Cardinality(DOMAIN call.arg.code_metrics) = 2
    /\ \E l, k \in DOMAIN call.arg.code_metrics :
          /\ call.arg.code_metrics[l].files # call.arg.code_metrics[k].files
          /\ call.arg.code_metrics[l].avg_complexity # call.arg.code_metrics[k].avg_complexity
    /\ ret.value.code_stats.total_issues > 0

(***************************************************************************)
(* SpecApi: the handler of /api/analyze applied to a request and to what   *)
(* analyze_directory yields for its path.                                  *)
(***************************************************************************)
\* dict.get(key, default)
Get(dict, key, default) == IF key \in DOMAIN dict THEN dict[key] ELSE default

\* sum(...) / len(metrics) if results.get('metrics') else 0
Quotient(total, n) == Ratio(total.num, total.den * n)

ApiMean(code_metrics, avg) ==
    IF DOMAIN code_metrics = {} THEN Ratio(0, 1)
    ELSE Quotient(RatSumOver(DOMAIN code_metrics, avg), Cardinality(DOMAIN code_metrics))

\* the code_stats of the response, from results.get('metrics', {})
ApiCodeStats(code_metrics) ==
    [total_loc |-> SumOver(DOMAIN code_metrics,
                           [l \in DOMAIN code_metrics |-> Get(code_metrics[l], "total_loc", 0)]),
     total_issues |-> SumOver(DOMAIN code_metrics,
                              [l \in DOMAIN code_metrics |->
                                  Len(Get(code_metrics[l], "issues", <<>>))]),
     avg_complexity |->
        ApiMean(code_metrics,
                [l \in DOMAIN code_metrics |->
                    Get(code_metrics[l], "avg_complexity", Ratio(0, 1))]),
     avg_maintainability |->
        ApiMean(code_metrics,
                [l \in DOMAIN code_metrics |->
                    Get(code_metrics[l], "avg_maintainability", Ratio(0, 1))])]

\* formatted_results
FormattedResults(results) ==
    [summary |-> [total_files |-> Get(results, "total_files", 0),
                  languages |-> Get(results, "languages", {}),
                  code_stats |-> ApiCodeStats(Get(results, "metrics", <<>>))],
     metrics |-> Get(results, "metrics", <<>>),
     timestamp |-> Get(results, "timestamp", "")]

\* analyze(): the response to the request, outcome being what
\* organizer.analyze_directory(path) returns or raises
analyze(request, outcome) ==
    IF ~request.has_path THEN [status |-> 400, body |-> [error |-> "No path provided"]]
    ELSE IF "raised" \in DOMAIN outcome THEN [status |-> 500, body |-> [error |-> outcome.raised]]
    ELSE [status |-> 200, body |-> FormattedResults(outcome.value)]

\* what analyze_project returns for these categories and language metrics
CoreResult(categories, code_metrics) ==
    [summary |-> _generate_project_summary(categories, code_metrics),
     files |-> categories,
     metrics |-> code_metrics,
     timestamp |-> [run |-> 1]]

\* the metrics of a run with these categories: an entry is the entry of a
\* code category and counts its files
MetricsOfRun(categories, code_metrics) ==
    \A l \in DOMAIN code_metrics :
        /\ <<"code", l>> \in DOMAIN categories
        /\ code_metrics[l].files = categories[<<"code", l>>].count

\* analyze_directory returns the result of analyze_project, or raises
Outcomes ==
    {[value |-> CoreResult(c, m)] :
        c \in SummaryCategories,
        m \in {n \in MetricsOver(MaxLanguages) :
                  \E d \in SummaryCategories : MetricsOfRun(d, n)}}
    \cup {[raised |-> "FileNotFoundError"]}

\* a request with or without a path, and what analyze_directory yields
ApiCalls ==
    {[request |-> [has_path |-> h], outcome |-> o] : h \in BOOLEAN, o \in Outcomes}

InitApi ==
    /\ call \in {[fn |-> "analyze", arg |-> a] :
                    a \in {b \in ApiCalls :
                              "value" \in DOMAIN b.outcome
                                 => MetricsOfRun(b.outcome.value.files, b.outcome.value.metrics)}}
    /\ ret = Pending
    /\ IdleAnalyzer

ApiAnalyze ==
    /\ call.fn = "analyze"
    /\ ret = Pending
    /\ ret' = [value |-> analyze(call.arg.request, call.arg.outcome)]
    /\ calls' = calls + 1
    /\ log' = IF ret'.value.status = 500
              THEN log \cup {[level |-> "error", what |-> "API error"]} ELSE log
    /\ UNCHANGED <<call, runVars, code_cache, previous, opened, written>>

NextApi == ApiAnalyze

SpecApi == InitApi /\ [][NextApi]_vars

\* the request was answered with the formatted results
Formatted == call.fn = "analyze" /\ ret # Pending /\ ret.value.status = 200

\* the code_stats of the response are those of the core summary
SameCodeStats(response, summary) ==
    /\ response.code_stats.total_loc = summary.code_stats.total_loc
    /\ response.code_stats.total_issues = summary.code_stats.total_issues
    /\ response.code_stats.avg_complexity = summary.code_stats.avg_complexity
    /\ response.code_stats.avg_maintainability = summary.code_stats.avg_maintainability

\* C26: the response of /api/analyze carries the values the core computed:
\* summary.total_files and summary.languages are the total_files and the
\* languages of the summary that analyze_project returned for the directory,
\* and code_stats are the code_stats of that summary.
C26_ResponseCarriesCoreSummary ==
    Formatted =>
        /\ ret.value.body.summary.total_files = call.arg.outcome.value.summary.total_files
        /\ ret.value.body.summary.languages = call.arg.outcome.value.summary.languages
        /\ SameCodeStats(ret.value.body.summary, call.arg.outcome.value.summary)

(***************************************************************************)
(* The steps of a run.  executor.map submits one task per file; a worker   *)
(* takes the oldest queued task when fewer than MAX_WORKERS tasks run, and *)
(* the results are collected by position once every task is done.          *)
(***************************************************************************)
\* the size of the worker pool
MAX_WORKERS == 2

IsRun == call.fn \in {"analyze_project", "analyze_directory"}

Running == Cardinality({i \in DOMAIN tasks : tasks[i] = "running"})

CanStart(i) ==
    /\ i \in DOMAIN tasks
    /\ tasks[i] = "queued"
    /\ \A j \in DOMAIN tasks : j < i => tasks[j] # "queued"
    /\ Running < MAX_WORKERS

AllDone == \A i \in DOMAIN tasks : tasks[i] = "done"

\* a variant of the collection of results: in the order of completion
CompletionSlot(i, queue) == Cardinality({j \in DOMAIN queue : queue[j] = "done"}) + 1

\* list(executor.map(...)): the results come in the order of the inputs, the
\* result of task i is the i-th of the list
ResultSlot(i, queue) == i

\* a variant of the end of the loop over the groups: it is not awaited
GroupsDoneEarly == lang_index >= 1

\* every language group has been passed
GroupsDone == lang_index > Len(by_language)

\* the except clause of analyze_project logs and raises again, and so does
\* the one of analyze_directory around it
Raise(exception, logged) ==
    /\ ret' = [raised |-> exception]
    /\ pc' = "raised"
    /\ log' = log \cup logged
                  \cup {[level |-> "error", what |-> "Project analysis failed"]}
                  \cup (IF call.fn = "analyze_directory"
                        THEN {[level |-> "error", what |-> "Failed to analyze directory"]}
                        ELSE {})

\* analyze_directory(path, save_to_db=False) up to the call of analyze_project
AnalyzeDirectory ==
    /\ pc = "analyze_directory"
    /\ IF call.arg.root = "missing"
       THEN /\ ret' = [raised |-> "FileNotFoundError"]
            /\ pc' = "raised"
            /\ log' = log \cup {[level |-> "error", what |-> "Failed to analyze directory"]}
       ELSE /\ pc' = "analyze_project"
            /\ UNCHANGED <<ret, log>>
    /\ UNCHANGED <<call, files, tasks, file_metadata, file_cache, categorized_files,
                   code_files, by_language, lang_index, file_metrics, metrics, code_cache,
                   obsVars>>

\* analyze_project: files = self._collect_files(), then the submission of
\* the _analyze_file tasks
CollectFiles ==
    /\ pc = "analyze_project"
    /\ \E r \in {_collect_files(call.arg)} :
          IF r.raised
          THEN /\ Raise(r.exception, r.logged)
               /\ UNCHANGED <<files, tasks, file_metadata>>
          ELSE /\ files' = r.files
               /\ tasks' = [i \in DOMAIN r.files |-> "queued"]
               /\ file_metadata' = [i \in DOMAIN r.files |-> Pending]
               /\ pc' = "extract"
               /\ log' = log \cup r.logged
               /\ UNCHANGED ret
    /\ UNCHANGED <<call, file_cache, categorized_files, code_files, by_language,
                   lang_index, file_metrics, metrics, code_cache, obsVars>>

\* a worker takes the _analyze_file task of files[i]
StartFileTask(i) ==
    /\ pc = "extract"
    /\ CanStart(i)
    /\ tasks' = [tasks EXCEPT ![i] = "running"]
    /\ UNCHANGED <<call, ret, pc, files, file_metadata, file_cache, categorized_files,
                   code_files, by_language, lang_index, file_metrics, metrics,
                   code_cache, log, obsVars>>

\* _analyze_file(files[i]) runs and its task ends
FinishFileTask(i) ==
    /\ pc = "extract"
    /\ i \in DOMAIN tasks
    /\ tasks[i] = "running"
    /\ \E r \in {_analyze_file(files[i])} :
          /\ file_metadata' = [file_metadata EXCEPT ![ResultSlot(i, tasks)] = r.value]
          /\ file_cache' = IF r.value = None THEN file_cache
                           ELSE (r.value.path :> r.value) @@ file_cache
          /\ written' = Bump(written, Slot("file_cache", PathOf(files[i])),
                             IF r.value = None THEN 0 ELSE 1)
          /\ log' = log \cup r.logged
    /\ tasks' = [tasks EXCEPT ![i] = "done"]
    /\ UNCHANGED <<call, ret, pc, files, categorized_files, code_files, by_language,
                   lang_index, file_metrics, metrics, code_cache, calls, previous,
                   opened>>

\* analyze_project: _categorize_files(file_metadata), then the selection of
\* the code files, which reads f.category of every element
CategorizeFiles ==
    /\ pc = "extract"
    /\ AllDone
    /\ categorized_files' = _categorize_files(file_metadata)
    /\ IF \E i \in DOMAIN file_metadata : file_metadata[i] = None
       THEN /\ Raise("AttributeError", {})
            /\ UNCHANGED code_files
       ELSE /\ code_files' = SelectSeq(file_metadata, LAMBDA f : IsCode(f))
            /\ pc' = "analyze_code_files"
            /\ UNCHANGED <<ret, log>>
    /\ UNCHANGED <<call, files, tasks, file_metadata, file_cache, by_language,
                   lang_index, file_metrics, metrics, code_cache, obsVars>>

\* _analyze_code_files: the grouping by language
GroupByLanguage ==
    /\ pc = "analyze_code_files"
    /\ by_language' = GroupFrom(code_files, 1, <<>>)
    /\ lang_index' = 1
    /\ metrics' = <<>>
    /\ pc' = "groups"
    /\ UNCHANGED <<call, ret, files, tasks, file_metadata, file_cache, categorized_files,
                   code_files, file_metrics, code_cache, log, obsVars>>

\* the next language group: the submission of its _get_code_metrics tasks
SubmitGroup ==
    /\ pc = "groups"
    /\ lang_index <= Len(by_language)
    /\ tasks' = [i \in DOMAIN by_language[lang_index].files |-> "queued"]
    /\ file_metrics' = [i \in DOMAIN by_language[lang_index].files |-> Pending]
    /\ pc' = "metrics"
    /\ UNCHANGED <<call, ret, files, file_metadata, file_cache, categorized_files,
                   code_files, by_language, lang_index, metrics, code_cache, log,
                   obsVars>>

\* a worker takes the _get_code_metrics task of the i-th file of the group
StartMetricTask(i) ==
    /\ pc = "metrics"
    /\ CanStart(i)
    /\ tasks' = [tasks EXCEPT ![i] = "running"]
    /\ UNCHANGED <<call, ret, pc, files, file_metadata, file_cache, categorized_files,
                   code_files, by_language, lang_index, file_metrics, metrics,
                   code_cache, log, obsVars>>

\* _get_code_metrics of the i-th file of the group runs and its task ends
FinishMetricTask(i) ==
    /\ pc = "metrics"
    /\ i \in DOMAIN tasks
    /\ tasks[i] = "running"
    /\ \E r \in {_get_code_metrics(by_language[lang_index].files[i], code_cache)} :
          /\ file_metrics' = [file_metrics EXCEPT ![ResultSlot(i, tasks)] = r.value]
          /\ AfterMetrics(by_language[lang_index].files[i], r)
    /\ tasks' = [tasks EXCEPT ![i] = "done"]
    /\ UNCHANGED <<call, ret, pc, files, file_metadata, file_cache, categorized_files,
                   code_files, by_language, lang_index, metrics, calls, previous>>

\* the rest of the pass over the group: duplicates, valid metrics, the entry
\* of the language or the except clause
AggregateGroup ==
    /\ pc = "metrics"
    /\ AllDone
    /\ \E o \in {GroupOutcome(by_language[lang_index].lang,
                              by_language[lang_index].files,
                              ValidMetrics(file_metrics),
                              _find_duplicates(by_language[lang_index].files))} :
          /\ metrics' = IF o.added
                        THEN (by_language[lang_index].lang :> o.entry) @@ metrics
                        ELSE metrics
          /\ log' = log \cup o.logged
    /\ lang_index' = lang_index + 1
    /\ pc' = "groups"
    /\ UNCHANGED <<call, ret, files, tasks, file_metadata, file_cache, categorized_files,
                   code_files, by_language, file_metrics, code_cache,
                   obsVars>>

\* _analyze_code_files returns its metrics
ReturnCodeMetrics ==
    /\ call.fn = "_analyze_code_files"
    /\ pc = "groups"
    /\ GroupsDone
    /\ ret' = [value |-> metrics]
    /\ pc' = "done"
    /\ calls' = calls + 1
    /\ UNCHANGED <<call, files, tasks, file_metadata, file_cache, categorized_files,
                   code_files, by_language, lang_index, file_metrics, metrics,
                   code_cache, log, previous, opened, written>>

\* analyze_project: the summary and the result, which analyze_directory
\* hands on; the timestamp is the time of the run, which no two runs share
Summarize ==
    /\ IsRun
    /\ pc = "groups"
    /\ GroupsDone
    /\ ret' = [value |-> [summary |-> _generate_project_summary(categorized_files, metrics),
                          files |-> categorized_files,
                          metrics |-> metrics,
                          timestamp |-> [run |-> calls + 1]]]
    /\ pc' = "done"
    /\ calls' = calls + 1
    /\ UNCHANGED <<call, files, tasks, file_metadata, file_cache, categorized_files,
                   code_files, by_language, lang_index, file_metrics, metrics,
                   code_cache, log, previous, opened, written>>

\* the run is repeated on the unchanged tree: analyze_project is called again
\* on the same ProjectAnalyzer, which keeps its caches; analyze_directory
\* constructs a new ProjectAnalyzer
AnalyzeAgain ==
    /\ IsRun
    /\ pc = "done"
    /\ calls < MaxCalls
    /\ previous' = ret
    /\ ret' = Pending
    /\ pc' = call.fn
    /\ files' = <<>>
    /\ tasks' = <<>>
    /\ file_metadata' = <<>>
    /\ categorized_files' = <<>>
    /\ code_files' = <<>>
    /\ by_language' = <<>>
    /\ lang_index' = 0
    /\ file_metrics' = <<>>
    /\ metrics' = <<>>
    /\ written' = <<>>
    /\ IF call.fn = "analyze_directory"
       THEN file_cache' = <<>> /\ code_cache' = <<>> /\ opened' = <<>>
       ELSE UNCHANGED <<file_cache, code_cache, opened>>
    /\ UNCHANGED <<call, log, calls>>

(***************************************************************************)
(* Spec: analyze_project and analyze_directory on a directory tree.        *)
(***************************************************************************)
\* the most files of a tree
MaxFiles == 3

TEXT_PLAIN == <<"t","e","x","t","/","p","l","a","i","n">>
OCTET_STREAM == <<"a","p","p","l","i","c","a","t","i","o","n","/","o","c","t","e","t","-","s","t","r","e","a","m">>
X_EMPTY == <<"i","n","o","d","e","/","x","-","e","m","p","t","y">>

\* the files at position i of a tree: a JavaScript source, an empty source,
\* a Python source that does not parse and one that does, a document, a
\* source without read permission, a broken link, an oversized file and a
\* source under .git
TreeFiles(i) ==
    {[dir |-> <<>>, name |-> <<LowerCase[i]>> \o <<".","j","s">>, kind |-> "file",
      mime_type |-> TEXT_PLAIN, content |-> <<"x">>],
     [dir |-> <<>>, name |-> <<LowerCase[i]>> \o <<".","j","s">>, kind |-> "file",
      mime_type |-> X_EMPTY, content |-> <<>>],
     [dir |-> <<>>, name |-> <<LowerCase[i]>> \o <<".","p","y">>, kind |-> "file",
      mime_type |-> TEXT_PLAIN, content |-> <<"x"," ","x">>],
     [dir |-> <<>>, name |-> <<LowerCase[i]>> \o <<".","p","y">>, kind |-> "file",
      mime_type |-> TEXT_PLAIN, content |-> <<"x">>],
     [dir |-> <<>>, name |-> <<LowerCase[i]>> \o <<".","m","d">>, kind |-> "file",
      mime_type |-> TEXT_PLAIN, content |-> <<"x">>],
     [dir |-> <<>>, name |-> <<LowerCase[i]>> \o <<".","j","s">>, kind |-> "unreadable",
      mime_type |-> TEXT_PLAIN, content |-> <<"x">>],
     [dir |-> <<>>, name |-> <<LowerCase[i]>> \o <<".","j","s">>, kind |-> "broken_link",
      mime_type |-> X_EMPTY, content |-> <<>>],
     [dir |-> <<>>, name |-> <<LowerCase[i]>> \o <<".","j","s">>, kind |-> "large",
      mime_type |-> TEXT_PLAIN, content |-> <<>>],
     [dir |-> <<<<".","g","i","t">>>>, name |-> <<LowerCase[i]>> \o <<".","j","s">>, kind |-> "file",
      mime_type |-> TEXT_PLAIN, content |-> <<"x">>]}

\* the listings of n files
RECURSIVE Listings(_)
Listings(n) ==
    IF n = 0 THEN {<<>>}
    ELSE {Append(l, f) : l \in Listings(n - 1), f \in TreeFiles(n)}

\* os.walk yields the files of the root before those of its directories
IsWalkOrder(entries) ==
    \A i, j \in DOMAIN entries : i < j /\ Len(entries[i].dir) > 0 => Len(entries[j].dir) > 0

Trees ==
    {[root |-> "ok", entries |-> l] :
        l \in {e \in UNION {Listings(n) : n \in 0..MaxFiles} : IsWalkOrder(e)}}
    \cup {[root |-> r, entries |-> <<>>] : r \in {"missing", "unreadable"}}

\* no run under way, nothing cached or logged
Fresh ==
    /\ ret = Pending
    /\ files = <<>>
    /\ tasks = <<>>
    /\ file_metadata = <<>>
    /\ file_cache = <<>>
    /\ categorized_files = <<>>
    /\ code_files = <<>>
    /\ by_language = <<>>
    /\ lang_index = 0
    /\ file_metrics = <<>>
    /\ metrics = <<>>
    /\ code_cache = <<>>
    /\ log = {}
    /\ calls = 0
    /\ previous = Pending
    /\ opened = <<>>
    /\ written = <<>>

Init ==
    /\ call \in {[fn |-> f, arg |-> tree] :
                    f \in {"analyze_project", "analyze_directory"}, tree \in Trees}
    /\ pc = call.fn
    /\ Fresh

Next ==
    \/ AnalyzeDirectory
    \/ CollectFiles
    \/ \E i \in 1..MaxFiles : StartFileTask(i)
    \/ \E i \in 1..MaxFiles : FinishFileTask(i)
    \/ CategorizeFiles
    \/ GroupByLanguage
    \/ SubmitGroup
    \/ \E i \in 1..MaxFiles : StartMetricTask(i)
    \/ \E i \in 1..MaxFiles : FinishMetricTask(i)
    \/ AggregateGroup
    \/ Summarize
    \/ AnalyzeAgain

Spec == Init /\ [][Next]_vars

\* the run is on a tree in which discovery finds no file: the tree is empty,
\* or holds hidden and oversized files only
NothingDiscovered ==
    /\ IsRun
    /\ call.arg.root = "ok"
    /\ \A k \in DOMAIN call.arg.entries :
          ~Kept(call.arg.entries[k]) /\ ~StatFails(call.arg.entries[k])

\* the summary of no files
EmptySummary ==
    [total_files |-> 0,
     total_size |-> 0,
     languages |-> {},
     code_stats |-> [total_loc |-> 0,
                     avg_complexity |-> Ratio(0, 1),
                     avg_maintainability |-> Ratio(0, 1),
                     total_issues |-> 0],
     categories |-> <<>>]

\* C13: for an empty directory tree (no files discovered) analyze_project
\* does not raise, and the summary it returns has total_files = 0,
\* total_size = 0, no languages, total_loc = 0, avg_complexity = 0,
\* avg_maintainability = 0, total_issues = 0 and no categories.
C13_EmptyTreeSummary ==
    NothingDiscovered =>
        /\ pc # "raised"
        /\ pc = "done" => ret.value.summary = EmptySummary /\ ret.value.metrics = <<>>

\* the run on the empty tree has returned its summary
C13_Witness ==
    /\ NothingDiscovered
    /\ call.arg.entries = <<>>
    /\ pc = "done"
    /\ ret.value.summary = EmptySummary

\* the paths of the list are pairwise distinct
DistinctPaths(list) ==
    \A i, j \in DOMAIN list : i # j => list[i].path # list[j].path

\* the positions at which the language groups hold the path
GroupSlots(path) ==
    {<<k, i>> \in (DOMAIN by_language) \X (1..MaxFiles) :
        i \in DOMAIN by_language[k].files /\ by_language[k].files[i].path = path}

\* C18: in a single run no two worker tasks write the same key of file_cache
\* or of code_cache: every discovered path has exactly one _analyze_file task
\* and, if it is a code file, exactly one _get_code_metrics task, so that
\* every key is written once at most in the run.
C18_OneWriterPerKey ==
    IsRun =>
        /\ \A k \in DOMAIN written : written[k] <= 1
        /\ pc = "extract" =>
              /\ Len(tasks) = Len(files)
              /\ \A i, j \in DOMAIN files : i # j => PathOf(files[i]) # PathOf(files[j])
        /\ pc \in {"groups", "metrics", "done"} =>
              /\ DistinctPaths(code_files)
              /\ \A i \in DOMAIN code_files :
                    Cardinality(GroupSlots(code_files[i].path)) = 1
        /\ pc = "metrics" =>
              /\ Len(tasks) = Len(by_language[lang_index].files)
              /\ DistinctPaths(by_language[lang_index].files)

\* a first run has ended in which two keys of each cache were written
C18_Witness ==
    /\ IsRun
    /\ pc = "done"
    /\ calls = 1
    /\ Cardinality({k \in DOMAIN written : k.cache = "file_cache" /\ written[k] = 1}) >= 2
    /\ Cardinality({k \in DOMAIN written : k.cache = "code_cache" /\ written[k] = 1}) >= 2

\* the run carried out task by task, in the order of discovery: the metadata
\* of the files, the metrics of the groups from group k on, and the result
SequentialMetadata(found) == [i \in DOMAIN found |-> _analyze_file(found[i]).value]

RECURSIVE SequentialMetrics(_, _, _)
SequentialEntry(groups, k, acc, o) ==
    SequentialMetrics(groups, k + 1,
                      IF o.added THEN (groups[k].lang :> o.entry) @@ acc ELSE acc)

SequentialMetrics(groups, k, acc) ==
    IF k > Len(groups) THEN acc
    ELSE SequentialEntry(groups, k, acc,
            GroupOutcome(groups[k].lang, groups[k].files,
                         ValidMetrics([i \in DOMAIN groups[k].files |->
                                          ComputeMetrics(groups[k].files[i]).value]),
                         _find_duplicates(groups[k].files)))

SequentialParts(categories, code_metrics) ==
    [summary |-> _generate_project_summary(categories, code_metrics),
     files |-> categories,
     metrics |-> code_metrics]

SequentialResult(metadata) ==
    SequentialParts(_categorize_files(metadata),
                    SequentialMetrics(GroupFrom(SelectSeq(metadata, LAMBDA f : IsCode(f)), 1, <<>>),
                                      1, <<>>))

\* the result of a run without its timestamp
Parts(result) ==
    [summary |-> result.summary, files |-> result.files, metrics |-> result.metrics]

\* C19: for an unchanged tree the FileRecords, the CodeMetrics of each file
\* and the per-language and summary aggregates are the same for every
\* interleaving and completion order of the worker tasks and for two
\* successive runs: the i-th collected result is the one of the i-th
\* discovered file, the result of a run is the one of the run carried out
\* task by task, and a second run returns what the first returned.
C19_ResultsIndependentOfOrder ==
    IsRun =>
        /\ \A i \in DOMAIN file_metadata :
              file_metadata[i] \in {Pending, _analyze_file(files[i]).value}
        /\ pc = "metrics" =>
              \A i \in DOMAIN file_metrics :
                  file_metrics[i] \in
                      {Pending, ComputeMetrics(by_language[lang_index].files[i]).value}
        /\ pc = "done" =>
              /\ \A expected \in {SequentialResult(SequentialMetadata(files))} :
                    Parts(ret.value) = expected
              /\ calls >= 2 => Parts(ret.value) = Parts(previous.value)

\* a second run over a tree of two code files or more has returned
C19_Witness ==
    /\ IsRun
    /\ pc = "done"
    /\ calls = 2
    /\ Len(code_files) >= 2
    /\ Parts(ret.value) = Parts(previous.value)

\* the pass over the k-th language group has ended: its entry is set, or its
\* failure logged
GroupPassed(k) ==
    \/ by_language[k].lang \in DOMAIN metrics
    \/ [level |-> "error", what |-> "Failed to analyze files", lang |-> by_language[k].lang] \in log

\* the pass over group k has not ended: the language has no entry and, in a
\* first run, no failure is logged for it (the log outlives a run)
GroupAhead(k) ==
    /\ by_language[k].lang \notin DOMAIN metrics
    /\ calls = 0 =>
          [level |-> "error", what |-> "Failed to analyze files", lang |-> by_language[k].lang]
              \notin log

\* C20: the phases of a run are strictly ordered: no _get_code_metrics task
\* starts before every _analyze_file task has finished; the language groups
\* are processed one after another, no metric task of a language starts
\* before the metric tasks and the duplicate detection of the language
\* before it have finished; the summary is computed after all the groups.
C20_PhasesInOrder ==
    IsRun =>
        /\ pc \in {"analyze_code_files", "groups", "metrics", "done"} =>
              /\ Len(file_metadata) = Len(files)
              /\ \A i \in DOMAIN file_metadata : file_metadata[i] # Pending
        /\ pc \in {"extract", "analyze_project", "analyze_directory"} =>
              by_language = <<>> /\ file_metrics = <<>>
        /\ pc = "metrics" =>
              /\ lang_index \in DOMAIN by_language
              /\ \A k \in DOMAIN by_language : k < lang_index => GroupPassed(k)
              /\ \A k \in DOMAIN by_language : k >= lang_index => GroupAhead(k)
        /\ pc = "done" =>
              /\ AllDone
              /\ \A k \in DOMAIN by_language : GroupPassed(k)
              /\ \A i \in DOMAIN file_metrics : file_metrics[i] # Pending

\* a run over two language groups has returned its summary
C20_Witness ==
    /\ IsRun
    /\ pc = "done"
    /\ calls = 1
    /\ Len(by_language) >= 2
    /\ \A k \in DOMAIN by_language : GroupPassed(k)

\* analyze_project has returned its result
HasResult == IsRun /\ pc = "done" /\ "value" \in DOMAIN ret

\* the FileRecords of the run
Records == SelectSeq(file_metadata, LAMBDA f : f # None /\ f # Pending)

\* the languages L with a FileRecord of category code/L
RecordLanguages == {LangOf(Records[i]) : i \in {j \in DOMAIN Records : IsCode(Records[j])}}

\* total_files is the number of FileRecords and of the files of the
\* categories, total_size the sum of their sizes
CountsMatchRecords ==
    /\ ret.value.summary.total_files = Len(Records)
    /\ ret.value.summary.total_files
          = SumOver(DOMAIN ret.value.files,
                    [c \in DOMAIN ret.value.files |-> ret.value.files[c].count])
    /\ ret.value.summary.total_size
          = SumSeq([i \in DOMAIN Records |-> Records[i].size], 1, 0)

\* C23: in every result of analyze_project the languages of the summary are
\* the languages L for which a FileRecord has the category code/L,
\* total_files is the number of FileRecords (the sum of the counts of the
\* categories) and total_size the sum of their sizes.
C23_SummaryMatchesRecords ==
    HasResult => ret.value.summary.languages = RecordLanguages /\ CountsMatchRecords

\* C1: when _analyze_file failed for a discovered file (its result is None),
\* analyze_project does not raise.
C1_FailedFileDoesNotAbort ==
    IsRun /\ (\E i \in DOMAIN file_metadata : file_metadata[i] = None) => pc # "raised"

\* C2: analyze_project raises only when the root directory is missing or
\* unreadable, never for a failure that concerns a single file.
C2_RaisesOnlyForTheRoot ==
    call.fn = "analyze_project" /\ pc = "raised" => call.arg.root # "ok"

\* C3: when the root directory does not exist, the run fails before any
\* discovery and returns no result, from analyze_project as from
\* analyze_directory.
C3_MissingRootFails ==
    IsRun /\ call.arg.root = "missing" => pc \in {"analyze_directory", "analyze_project", "raised"}

(***************************************************************************)
(* SpecCodeFiles: _analyze_code_files applied to the metadata of the code  *)
(* files of a tree, as analyze_project calls it.                           *)
(***************************************************************************)
\* the most code files
MaxCode == 3

\* the code files at position i: JavaScript sources of one and two lines, an
\* empty one, and Python sources that radon cannot parse, can parse, and
\* cannot tokenize; a JavaScript source of one word, the same source and a
\* Python source detected as application/octet-stream
CodeFiles(i) ==
    {[dir |-> <<>>, name |-> <<LowerCase[i]>> \o <<".","j","s">>, kind |-> "file",
      mime_type |-> TEXT_PLAIN, content |-> <<"a","b">>],
     [dir |-> <<>>, name |-> <<LowerCase[i]>> \o <<".","j","s">>, kind |-> "file",
      mime_type |-> OCTET_STREAM, content |-> <<"a","b">>],
     [dir |-> <<>>, name |-> <<LowerCase[i]>> \o <<".","p","y">>, kind |-> "file",
      mime_type |-> OCTET_STREAM, content |-> <<"x">>]} \cup
    {[dir |-> <<>>, name |-> <<LowerCase[i]>> \o <<".","j","s">>, kind |-> "file",
      mime_type |-> TEXT_PLAIN, content |-> <<"x">>],
     [dir |-> <<>>, name |-> <<LowerCase[i]>> \o <<".","j","s">>, kind |-> "file",
      mime_type |-> TEXT_PLAIN, content |-> <<"x","\n","x">>],
     [dir |-> <<>>, name |-> <<LowerCase[i]>> \o <<".","j","s">>, kind |-> "file",
      mime_type |-> X_EMPTY, content |-> <<>>],
     [dir |-> <<>>, name |-> <<LowerCase[i]>> \o <<".","p","y">>, kind |-> "file",
      mime_type |-> TEXT_PLAIN, content |-> <<"x"," ","x">>],
     [dir |-> <<>>, name |-> <<LowerCase[i]>> \o <<".","p","y">>, kind |-> "file",
      mime_type |-> TEXT_PLAIN, content |-> <<"x">>],
     [dir |-> <<>>, name |-> <<LowerCase[i]>> \o <<".","p","y">>, kind |-> "file",
      mime_type |-> TEXT_PLAIN, content |-> <<"(">>]}

\* the metadata of n code files, in discovery order
RECURSIVE CodeLists(_)
CodeLists(n) ==
    IF n = 0 THEN {<<>>}
    ELSE {Append(l, FileMetadata(f)) : l \in CodeLists(n - 1), f \in CodeFiles(n)}

\* file_cache after the _analyze_file tasks of these files
RECURSIVE CacheOf(_, _)
CacheOf(metadata, i) ==
    IF i > Len(metadata) THEN <<>>
    ELSE (metadata[i].path :> metadata[i]) @@ CacheOf(metadata, i + 1)

InitCodeFiles ==
    /\ call \in {[fn |-> "_analyze_code_files", arg |-> l] :
                    l \in UNION {CodeLists(n) : n \in 0..MaxCode}}
    /\ pc = "analyze_code_files"
    /\ code_files = call.arg
    /\ file_cache = CacheOf(call.arg, 1)
    /\ ret = Pending
    /\ files = <<>>
    /\ tasks = <<>>
    /\ file_metadata = <<>>
    /\ categorized_files = <<>>
    /\ by_language = <<>>
    /\ lang_index = 0
    /\ file_metrics = <<>>
    /\ metrics = <<>>
    /\ code_cache = <<>>
    /\ log = {}
    /\ calls = 0
    /\ previous = Pending
    /\ opened = <<>>
    /\ written = <<>>

NextCodeFiles ==
    \/ GroupByLanguage
    \/ SubmitGroup
    \/ \E i \in 1..MaxCode : StartMetricTask(i)
    \/ \E i \in 1..MaxCode : FinishMetricTask(i)
    \/ AggregateGroup
    \/ ReturnCodeMetrics

SpecCodeFiles == InitCodeFiles /\ [][NextCodeFiles]_vars

\* the pass over a language group has just ended: file_metrics still holds
\* the results of its metric tasks
Aggregated ==
    /\ call.fn = "_analyze_code_files"
    /\ pc \in {"groups", "done"}
    /\ lang_index > 1

\* the averages of the entry are the sums over the valid metrics divided by
\* their number, and total_loc is their summed loc
MeansOverValid(entry, valid) ==
    /\ \A i \in DOMAIN valid : valid[i].maintainability.type = "number"
    /\ entry.total_loc = SumSeq([i \in DOMAIN valid |-> valid[i].loc], 1, 0)
    /\ entry.avg_complexity.num * Len(valid)
          = entry.avg_complexity.den * SumSeq([i \in DOMAIN valid |-> valid[i].complexity], 1, 0)
    /\ entry.avg_maintainability.num * Len(valid)
          = entry.avg_maintainability.den
                * SumSeq([i \in DOMAIN valid |-> valid[i].maintainability.value], 1, 0)

\* C9: when N files of a language group are fed to metric computation and K
\* of them fail, avg_complexity and avg_maintainability of the language are
\* the sums over the N-K valid CodeMetrics divided by N-K, and total_loc sums
\* the valid files only.
C9_MeansOverValidFiles ==
    Aggregated /\ Len(ValidMetrics(file_metrics)) > 0
        => /\ by_language[lang_index - 1].lang \in DOMAIN metrics
           /\ \A valid \in {ValidMetrics(file_metrics)} :
                 MeansOverValid(metrics[by_language[lang_index - 1].lang], valid)

\* the except clause of the pass over this language has run
GroupFailed(lang) ==
    [level |-> "error", what |-> "Failed to analyze files", lang |-> lang] \in log

\* the counters of the entry are zero
ZeroFilled(entry) ==
    /\ entry.total_loc = 0
    /\ entry.avg_complexity = Ratio(0, 1)
    /\ entry.avg_maintainability = Ratio(0, 1)
    /\ entry.duplicates = <<>>
    /\ entry.issues = <<>>

\* C14: when the pass over one language group raises, the failure is caught
\* and logged, the language is reported with zero-filled counters, and the
\* metrics of every other language group are computed and present in the
\* result: every group passed so far has its entry, a zero-filled one if its
\* pass raised.
C14_FailedGroupIsZeroFilled ==
    call.fn = "_analyze_code_files" =>
        \A k \in DOMAIN by_language :
            k < lang_index =>
                /\ by_language[k].lang \in DOMAIN metrics
                /\ GroupFailed(by_language[k].lang)
                      => ZeroFilled(metrics[by_language[k].lang])

\* the files of the group whose pass has just ended, and its language
PassedGroup == by_language[lang_index - 1].files
PassedLang == by_language[lang_index - 1].lang

\* no pair of duplicates names the file
NotPaired(duplicates, path) ==
    \A d \in DOMAIN duplicates : duplicates[d].file1 # path /\ duplicates[d].file2 # path

\* the file of the group flagged is_binary has no CodeMetrics, is counted in
\* 'files' and in no sum or mean, and was an empty document for the
\* duplicate detection: its read failed and it is in no pair
BinaryFileHandled(i, file) ==
    /\ file.encoding = "binary"
    /\ file_metrics[i] = None
    /\ [level |-> "error", what |-> "Failed to read", path |-> file.path] \in log
    /\ PassedLang \in DOMAIN metrics
    /\ metrics[PassedLang].files = Len(PassedGroup)
    /\ NotPaired(metrics[PassedLang].duplicates, file.path)
    /\ \A valid \in {ValidMetrics(file_metrics)} :
          IF Len(valid) = 0 THEN ZeroFilled(metrics[PassedLang])
          ELSE MeansOverValid(metrics[PassedLang], valid)

\* C25: a code file whose FileRecord is flagged is_binary (its MIME type does
\* not start with 'text/', its encoding is 'binary') never yields a
\* CodeMetrics: _get_code_metrics returns None for it, it is in none of the
\* sums and means of its language, it is counted in the 'files' of the
\* language, and it is an empty document for the duplicate detection.
C25_BinaryCodeFileIsCountedOnly ==
    Aggregated =>
        \A i \in DOMAIN PassedGroup :
            PassedGroup[i].is_binary => BinaryFileHandled(i, PassedGroup[i])

====
